---- MODULE Spec2Model ----
(***************************************************************************)
(* A model of BigIntAsDecimal: decimal numbers held as coef * 10 ** exp,   *)
(* with the rounding divisions, the rescaling helpers and the arithmetic   *)
(* of src/src/rounding.ts.                                                 *)
(*                                                                         *)
(* A function that may throw is modelled by an operator returning an       *)
(* outcome record: Ok(v) for a normal return of v, Throw(e, by) for an     *)
(* exception of class e raised at the place named by.                      *)
(***************************************************************************)
EXTENDS Integers, Naturals, Sequences, FiniteSets, TLC

VARIABLES
    acc,              \* the Decimal the program holds (receiver / dividend / x)
    arg,              \* the inputs of the call under way (operand y, expOut, mode ...)
    ret,              \* what the last call was given and what it returned
    ref,              \* exact rational value the accumulated result must denote
    hist,             \* the results compare has returned for the pair held
    defaultRounding   \* BigIntAsDecimal.defaultRounding

vars == <<acc, arg, ret, ref, hist, defaultRounding>>

----------------------------------------------------------------------------
(* Bounds of the model *)

\* operands of add / subtract / multiply: coefficients -MaxOperand..MaxOperand
MaxOperand == 2
\* operand exponents -MaxExp..MaxExp
MaxExp == 1
\* the accumulated result is followed while |coef| <= MaxAccCoef ...
MaxAccCoef == 40
\* ... and |exp| <= MaxAccExp
MaxAccExp == 3
\* divide is called while the rescaled dividend stays within MaxScaled
MaxScaled == 2000000000
\* the rounding divisions are applied to dividends -MaxDividend..MaxDividend
MaxDividend == 30
\* ... and divisors -MaxDivisor..MaxDivisor
MaxDivisor == 10

----------------------------------------------------------------------------
(* Outcomes *)

Ok(v) == [ok |-> TRUE, val |-> v, err |-> "", by |-> ""]

Throw(e, who) == [ok |-> FALSE, val |-> 0, err |-> e, by |-> who]

NoCall == [op |-> "none"]

Decimal(c, e) == [coef |-> c, exp |-> e]

----------------------------------------------------------------------------
(* bigint arithmetic of the language *)

Abs(n) == IF n < 0 THEN -n ELSE n

Min(a, b) == IF a < b THEN a ELSE b

Max(a, b) == IF a > b THEN a ELSE b

Sgn(n) == IF n > 0 THEN 1 ELSE IF n < 0 THEN -1 ELSE 0

\* n / div on bigints: the quotient truncated toward zero (div # 0)
BigIntDiv(n, div) == Sgn(n) * Sgn(div) * (Abs(n) \div Abs(div))

\* n % div on bigints: the remainder has the sign of the dividend (div # 0)
BigIntRem(n, div) == n - div * BigIntDiv(n, div)

RECURSIVE Pow10(_)
\* 10n ** BigInt(k), k >= 0
Pow10(k) == IF k <= 0 THEN 1 ELSE 10 * Pow10(k - 1)

----------------------------------------------------------------------------
(* Rounding Engine: RoundingModes *)

HALF_UP_NoDoubling(n, div) ==
    IF div = 0 THEN Throw("RangeError", "bigint division")
    ELSE LET q == BigIntDiv(n, div)
             r2 == BigIntRem(n, div)
         IN Ok(q + BigIntDiv(r2, div))

HALF_UP(n, div) ==
    IF div = 0 THEN Throw("RangeError", "bigint division")
    ELSE LET q == BigIntDiv(n, div)
             r2 == BigIntRem(n, div) * 2
         IN Ok(q + BigIntDiv(r2, div))

HALF_TO_EVEN_OneSidedTie(n, div) ==
    IF div = 0 THEN Throw("RangeError", "bigint division")
    ELSE LET q == BigIntDiv(n, div)
             r2 == BigIntRem(n, div) * 2
         IN IF q % 2 = 0 /\ r2 = div
            THEN Ok(q)
            ELSE Ok(q + BigIntDiv(r2, div))

HALF_TO_EVEN(n, div) ==
    IF div = 0 THEN Throw("RangeError", "bigint division")
    ELSE LET q == BigIntDiv(n, div)
             r2 == BigIntRem(n, div) * 2
         IN IF q % 2 = 0 /\ (r2 = div \/ r2 = -div)
            THEN Ok(q)
            ELSE Ok(q + BigIntDiv(r2, div))

UP_DividendSign(n, div) ==
    IF div = 0 THEN Throw("RangeError", "bigint division")
    ELSE LET q == BigIntDiv(n, div)
             r == BigIntRem(n, div)
         IN IF r = 0 THEN Ok(q)
            ELSE Ok(q + (IF n > 0 THEN 1 ELSE -1))

UP(n, div) ==
    IF div = 0 THEN Throw("RangeError", "bigint division")
    ELSE LET q == BigIntDiv(n, div)
             r == BigIntRem(n, div)
         IN IF r = 0 THEN Ok(q)
            ELSE LET sameSign == (n > 0) = (div > 0)
                 IN Ok(q + (IF sameSign THEN 1 ELSE -1))

DOWN_ZeroShortcut(n, div) ==
    IF n = 0 THEN Ok(0)
    ELSE IF div = 0 THEN Throw("RangeError", "bigint division")
    ELSE Ok(BigIntDiv(n, div))

DOWN(n, div) ==
    IF div = 0 THEN Throw("RangeError", "bigint division")
    ELSE Ok(BigIntDiv(n, div))

TOWARD_POSITIVE_INFINITY_DividendSign(n, div) ==
    IF div = 0 THEN Throw("RangeError", "bigint division")
    ELSE LET q == BigIntDiv(n, div)
             r == BigIntRem(n, div)
         IN IF r = 0 THEN Ok(q)
            ELSE Ok(q + (IF n > 0 THEN 1 ELSE 0))

TOWARD_POSITIVE_INFINITY(n, div) ==
    IF div = 0 THEN Throw("RangeError", "bigint division")
    ELSE LET q == BigIntDiv(n, div)
             r == BigIntRem(n, div)
         IN IF r = 0 THEN Ok(q)
            ELSE LET sameSign == (n > 0) = (div > 0)
                 IN Ok(q + (IF sameSign THEN 1 ELSE 0))

TOWARD_NEGATIVE_INFINITY_DividendSign(n, div) ==
    IF div = 0 THEN Throw("RangeError", "bigint division")
    ELSE LET q == BigIntDiv(n, div)
             r == BigIntRem(n, div)
         IN IF r = 0 THEN Ok(q)
            ELSE Ok(q - (IF n > 0 THEN 0 ELSE 1))

TOWARD_NEGATIVE_INFINITY(n, div) ==
    IF div = 0 THEN Throw("RangeError", "bigint division")
    ELSE LET q == BigIntDiv(n, div)
             r == BigIntRem(n, div)
         IN IF r = 0 THEN Ok(q)
            ELSE LET sameSign == (n > 0) = (div > 0)
                 IN Ok(q - (IF sameSign THEN 0 ELSE 1))

\* the names of the six RoundingDivision operations
RoundingModes ==
    {"HALF_UP", "HALF_TO_EVEN", "UP", "DOWN",
     "TOWARD_POSITIVE_INFINITY", "TOWARD_NEGATIVE_INFINITY"}

\* rounding(n, div): the call of the RoundingDivision named rounding
Rounding(rounding, n, div) ==
    CASE rounding = "HALF_UP" -> HALF_UP(n, div)
      [] rounding = "HALF_TO_EVEN" -> HALF_TO_EVEN(n, div)
      [] rounding = "UP" -> UP(n, div)
      [] rounding = "DOWN" -> DOWN(n, div)
      [] rounding = "TOWARD_POSITIVE_INFINITY" -> TOWARD_POSITIVE_INFINITY(n, div)
      [] rounding = "TOWARD_NEGATIVE_INFINITY" -> TOWARD_NEGATIVE_INFINITY(n, div)

----------------------------------------------------------------------------
(* Rescaling *)

scaleCoefSafe(coef, exp, expTo) ==
    IF expTo = exp THEN Ok(coef)
    ELSE IF expTo < exp THEN Ok(coef * Pow10(exp - expTo))
    ELSE LET div == Pow10(expTo - exp)
         IN IF BigIntRem(coef, div) = 0
            THEN Ok(BigIntDiv(coef, div))
            ELSE Throw("RangeError", "scaleCoefSafe")

scaleCoef_ShortDivisor(coef, exp, expTo, rounding) ==
    IF expTo > exp
    THEN Rounding(rounding, coef, Pow10(expTo - exp - 1))
    ELSE scaleCoefSafe(coef, exp, expTo)

scaleCoef(coef, exp, expTo, rounding) ==
    IF expTo > exp
    THEN Rounding(rounding, coef, Pow10(expTo - exp))
    ELSE scaleCoefSafe(coef, exp, expTo)

----------------------------------------------------------------------------
(* Arithmetic: the static operations on (coefficient, exponent) pairs *)

add_AlignToMax(xc, xe, yc, ye) ==
    LET exp == Max(xe, ye)
        sx == scaleCoefSafe(xc, xe, exp)
        sy == scaleCoefSafe(yc, ye, exp)
    IN IF ~sx.ok THEN sx
       ELSE IF ~sy.ok THEN sy
       ELSE Ok(Decimal(sx.val + sy.val, exp))

add(xc, xe, yc, ye) ==
    LET exp == Min(xe, ye)
        sx == scaleCoefSafe(xc, xe, exp)
        sy == scaleCoefSafe(yc, ye, exp)
    IN IF ~sx.ok THEN sx
       ELSE IF ~sy.ok THEN sy
       ELSE Ok(Decimal(sx.val + sy.val, exp))

subtract_NoAlign(xc, xe, yc, ye) == Ok(Decimal(xc - yc, Min(xe, ye)))

subtract(xc, xe, yc, ye) ==
    LET exp == Min(xe, ye)
        sx == scaleCoefSafe(xc, xe, exp)
        sy == scaleCoefSafe(yc, ye, exp)
    IN IF ~sx.ok THEN sx
       ELSE IF ~sy.ok THEN sy
       ELSE Ok(Decimal(sx.val - sy.val, exp))

multiply_KeepExp(xc, xe, yc, ye) == Ok(Decimal(xc * yc, Min(xe, ye)))

multiply(xc, xe, yc, ye) == Ok(Decimal(xc * yc, xe + ye))

compare_NoAlign(xc, xe, yc, ye) ==
    Ok(IF xc = yc THEN 0 ELSE IF xc > yc THEN 1 ELSE -1)

compare(xc, xe, yc, ye) ==
    LET exp == Min(xe, ye)
        sx == scaleCoefSafe(xc, xe, exp)
        sy == scaleCoefSafe(yc, ye, exp)
    IN IF ~sx.ok THEN sx
       ELSE IF ~sy.ok THEN sy
       ELSE Ok(IF sx.val = sy.val THEN 0 ELSE IF sx.val > sy.val THEN 1 ELSE -1)

\* an outcome together with the statements of divide that were executed
WithSteps(o, steps) ==
    [ok |-> o.ok, val |-> o.val, err |-> o.err, by |-> o.by, steps |-> steps]

divide_GuardOffByOne(xc, xe, yc, ye, expOut, rounding) ==
    LET sy == IF ye > 0 THEN scaleCoefSafe(yc, ye, 0) ELSE Ok(yc)
        ye1 == IF ye > 0 THEN 0 ELSE ye
        pre == IF ye > 0 THEN <<"scaleCoefSafe(yc)">> ELSE <<>>
    IN IF ~sy.ok THEN WithSteps(sy, pre)
       ELSE IF expOut + ye1 >= xe
       THEN WithSteps(Throw("RangeError", "divide"), pre \o <<"throw">>)
       ELSE LET sx == scaleCoefSafe(xc, xe, expOut + ye1)
                q == Rounding(rounding, sx.val, sy.val)
            IN IF ~sx.ok THEN WithSteps(sx, pre \o <<"scaleCoefSafe(xc)">>)
               ELSE IF ~q.ok
               THEN WithSteps(q, pre \o <<"scaleCoefSafe(xc)", "rounding">>)
               ELSE WithSteps(Ok(Decimal(q.val, expOut)),
                              pre \o <<"scaleCoefSafe(xc)", "rounding", "new">>)

divide_RoundsBeforeScaling(xc, xe, yc, ye, expOut, rounding) ==
    LET sy == IF ye > 0 THEN scaleCoefSafe(yc, ye, 0) ELSE Ok(yc)
        ye1 == IF ye > 0 THEN 0 ELSE ye
        pre == IF ye > 0 THEN <<"scaleCoefSafe(yc)">> ELSE <<>>
    IN IF ~sy.ok THEN WithSteps(sy, pre)
       ELSE IF expOut + ye1 > xe
       THEN WithSteps(Throw("RangeError", "divide"), pre \o <<"throw">>)
       ELSE LET sx == scaleCoefSafe(xc, xe, xe)
                q == Rounding(rounding, sx.val, sy.val)
                s == scaleCoef(q.val, xe - ye1, expOut, rounding)
            IN IF ~sx.ok THEN WithSteps(sx, pre \o <<"scaleCoefSafe(xc)">>)
               ELSE IF ~q.ok
               THEN WithSteps(q, pre \o <<"scaleCoefSafe(xc)", "rounding">>)
               ELSE WithSteps(Ok(Decimal(s.val, expOut)),
                              pre \o <<"scaleCoefSafe(xc)", "rounding", "new">>)

divide_IgnoresDivisorExp(xc, xe, yc, ye, expOut, rounding) ==
    LET sy == IF ye > 0 THEN scaleCoefSafe(yc, ye, 0) ELSE Ok(yc)
        ye1 == IF ye > 0 THEN 0 ELSE ye
        pre == IF ye > 0 THEN <<"scaleCoefSafe(yc)">> ELSE <<>>
    IN IF ~sy.ok THEN WithSteps(sy, pre)
       ELSE IF expOut + ye1 > xe
       THEN WithSteps(Throw("RangeError", "divide"), pre \o <<"throw">>)
       ELSE LET sx == scaleCoefSafe(xc, xe, expOut)
                q == Rounding(rounding, sx.val, sy.val)
            IN IF ~sx.ok THEN WithSteps(sx, pre \o <<"scaleCoefSafe(xc)">>)
               ELSE IF ~q.ok
               THEN WithSteps(q, pre \o <<"scaleCoefSafe(xc)", "rounding">>)
               ELSE WithSteps(Ok(Decimal(q.val, expOut)),
                              pre \o <<"scaleCoefSafe(xc)", "rounding", "new">>)

divide(xc, xe, yc, ye, expOut, rounding) ==
    LET sy == IF ye > 0 THEN scaleCoefSafe(yc, ye, 0) ELSE Ok(yc)
        ye1 == IF ye > 0 THEN 0 ELSE ye
        pre == IF ye > 0 THEN <<"scaleCoefSafe(yc)">> ELSE <<>>
    IN IF ~sy.ok THEN WithSteps(sy, pre)
       ELSE IF expOut + ye1 > xe
       THEN WithSteps(Throw("RangeError", "divide"), pre \o <<"throw">>)
       ELSE LET sx == scaleCoefSafe(xc, xe, expOut + ye1)
                q == Rounding(rounding, sx.val, sy.val)
            IN IF ~sx.ok THEN WithSteps(sx, pre \o <<"scaleCoefSafe(xc)">>)
               ELSE IF ~q.ok
               THEN WithSteps(q, pre \o <<"scaleCoefSafe(xc)", "rounding">>)
               ELSE WithSteps(Ok(Decimal(q.val, expOut)),
                              pre \o <<"scaleCoefSafe(xc)", "rounding", "new">>)

----------------------------------------------------------------------------
(* Instance methods *)

\* the largest safe integer: it stands for Number.MAX_SAFE_INTEGER, 2^53 - 1,
\* which the integers of this model cannot hold; twice it still fits them
MaxSafeInteger == 1000000000

\* Number.isSafeInteger(exp)
isSafeInteger(exp) ==
    IF exp \in Int THEN Abs(exp) <= MaxSafeInteger ELSE FALSE

checkExp(exp) ==
    IF isSafeInteger(exp) THEN Ok(exp) ELSE Throw("TypeError", "checkExp")

setExp_KeepsExp(x, expTo, rounding) ==
    LET ce == checkExp(expTo)
        sc == scaleCoef(x.coef, x.exp, expTo, rounding)
    IN IF ~ce.ok THEN ce
       ELSE IF ~sc.ok THEN sc
       ELSE Ok(Decimal(sc.val, x.exp))

\* x.setExp(expTo, rounding)
setExp(x, expTo, rounding) ==
    LET ce == checkExp(expTo)
        sc == scaleCoef(x.coef, x.exp, expTo, rounding)
    IN IF ~ce.ok THEN ce
       ELSE IF ~sc.ok THEN sc
       ELSE Ok(Decimal(sc.val, expTo))

----------------------------------------------------------------------------
(* Exact rational arithmetic: the reference the results are compared with. *)
(* A rational is kept in lowest terms with a positive denominator, so two  *)
(* rationals are equal exactly when their records are.                     *)

RECURSIVE Gcd(_, _)
Gcd(a, b) == IF b = 0 THEN a ELSE Gcd(b, a % b)

Rat(num, den) ==
    LET g == Gcd(Abs(num), den)
    IN [num |-> num \div g, den |-> den \div g]

\* the number coef * 10 ** exp
RatOf(d) == Rat(d.coef * Pow10(Max(d.exp, 0)), Pow10(Max(-d.exp, 0)))

RatAdd(a, b) == Rat(a.num * b.den + b.num * a.den, a.den * b.den)

RatSub(a, b) == Rat(a.num * b.den - b.num * a.den, a.den * b.den)

RatMul(a, b) == Rat(a.num * b.num, a.den * b.den)

RatSgn(a) == Sgn(a.num)

----------------------------------------------------------------------------
(* The arithmetic session: a program that holds a Decimal and keeps        *)
(* replacing it by its sum, difference or product with a fresh operand.    *)

Coefs(m) == (-m) .. m

Exps(m) == (-m) .. m

Operands == [coef : Coefs(MaxOperand), exp : Exps(MaxExp)]

\* the results the session goes on from
Followed(out) ==
    /\ out.ok
    /\ Abs(out.val.coef) <= MaxAccCoef
    /\ Abs(out.val.exp) <= MaxAccExp

Init ==
    /\ acc \in [coef : Coefs(MaxOperand), exp : Exps(MaxExp)]
    /\ arg = NoCall
    /\ ret = NoCall
    /\ ref = RatOf(acc)
    /\ hist = {}
    /\ defaultRounding = "HALF_UP"

Add ==
    \E y \in Operands :
        LET out == add(acc.coef, acc.exp, y.coef, y.exp)
        IN /\ out.ok => Followed(out)
           /\ ret' = [op |-> "add", x |-> acc, y |-> y, out |-> out]
           /\ acc' = IF out.ok THEN out.val ELSE acc
           /\ ref' = RatAdd(ref, RatOf(y))
           /\ UNCHANGED <<arg, hist, defaultRounding>>

Subtract ==
    \E y \in Operands :
        LET out == subtract(acc.coef, acc.exp, y.coef, y.exp)
        IN /\ out.ok => Followed(out)
           /\ ret' = [op |-> "subtract", x |-> acc, y |-> y, out |-> out]
           /\ acc' = IF out.ok THEN out.val ELSE acc
           /\ ref' = RatSub(ref, RatOf(y))
           /\ UNCHANGED <<arg, hist, defaultRounding>>

Multiply ==
    \E y \in Operands :
        LET out == multiply(acc.coef, acc.exp, y.coef, y.exp)
        IN /\ out.ok => Followed(out)
           /\ ret' = [op |-> "multiply", x |-> acc, y |-> y, out |-> out]
           /\ acc' = IF out.ok THEN out.val ELSE acc
           /\ ref' = RatMul(ref, RatOf(y))
           /\ UNCHANGED <<arg, hist, defaultRounding>>

Next == Add \/ Subtract \/ Multiply

Spec == Init /\ [][Next]_vars

----------------------------------------------------------------------------
(* C1: along any sequence of add, subtract and multiply from any Decimal,  *)
(* no call fails and the Decimal held denotes exactly the rational number  *)
(* the same sequence gives in exact rational arithmetic.                   *)
ArithmeticExact ==
    /\ ret.op \in {"add", "subtract", "multiply"} => ret.out.ok
    /\ RatOf(acc) = ref

\* a product of two negative-exponent operands with mixed signs was taken
\* after at least one earlier operation
ArithmeticExactWitness ==
    /\ ret.op = "multiply"
    /\ ret.x.exp < 0 /\ ret.y.exp < 0
    /\ ret.x.coef < 0 /\ ret.y.coef > 0
    /\ RatOf(ret.x) # RatOf(Decimal(ret.x.coef, 0))
    /\ Abs(ret.x.coef) > MaxOperand

(* C2: add and subtract return the Decimal whose exponent is               *)
(* e = min(xe, ye) and whose coefficient is xc*10^(xe-e) + yc*10^(ye-e)    *)
(* (minus for subtract), and the alignment of the operands never fails.    *)
AddSubtractAligned ==
    ret.op \in {"add", "subtract"} =>
        LET e == Min(ret.x.exp, ret.y.exp)
            xs == ret.x.coef * Pow10(ret.x.exp - e)
            ys == ret.y.coef * Pow10(ret.y.exp - e)
        IN /\ ret.out.ok
           /\ ret.out.val.exp = e
           /\ ret.out.val.coef = (IF ret.op = "add" THEN xs + ys ELSE xs - ys)

\* an addition that had to refine the first operand, and one the second
AddSubtractAlignedWitness ==
    /\ ret.op = "add"
    /\ ret.x.exp > ret.y.exp
    /\ ret.x.coef < 0 /\ ret.y.coef > 0
    /\ ret.out.val.coef # ret.x.coef + ret.y.coef

(* C3: multiply returns exactly (xc * yc, xe + ye).                        *)
MultiplyExact ==
    ret.op = "multiply" =>
        /\ ret.out.ok
        /\ ret.out.val.coef = ret.x.coef * ret.y.coef
        /\ ret.out.val.exp = ret.x.exp + ret.y.exp

\* a product of operands with nonzero exponents of opposite signs
MultiplyExactWitness ==
    /\ ret.op = "multiply"
    /\ ret.x.exp > 0 /\ ret.y.exp < 0
    /\ ret.x.coef < 0 /\ ret.y.coef < 0
    /\ ret.out.val.exp # Min(ret.x.exp, ret.y.exp)

----------------------------------------------------------------------------
(* The comparison session: a program that holds two Decimals x (acc) and   *)
(* y (arg), compares them, and replaces either by a numerically equal pair *)
(* of a lower exponent with setExp.                                        *)

CompareCoefs == Coefs(MaxOperand) \cup {12, 120}

CompareOperands == [coef : CompareCoefs, exp : Exps(MaxExp)]

\* setExp refines down to this exponent
RefineFloor == -(MaxExp + 1)

InitCompare ==
    /\ acc \in CompareOperands
    /\ arg \in CompareOperands
    /\ ret = NoCall
    /\ ref = RatSub(RatOf(acc), RatOf(arg))
    /\ hist = {}
    /\ defaultRounding = "HALF_UP"

CompareTo ==
    LET out == compare(acc.coef, acc.exp, arg.coef, arg.exp)
    IN /\ ret' = [op |-> "compare", x |-> acc, y |-> arg, out |-> out]
       /\ hist' = hist \cup {out}
       /\ UNCHANGED <<acc, arg, ref, defaultRounding>>

SetExpX ==
    \E expTo \in RefineFloor .. (acc.exp - 1) :
        LET out == setExp(acc, expTo, defaultRounding)
        IN /\ out.ok
           /\ acc' = out.val
           /\ UNCHANGED <<arg, ret, ref, hist, defaultRounding>>

SetExpY ==
    \E expTo \in RefineFloor .. (arg.exp - 1) :
        LET out == setExp(arg, expTo, defaultRounding)
        IN /\ out.ok
           /\ arg' = out.val
           /\ UNCHANGED <<acc, ret, ref, hist, defaultRounding>>

NextCompare == CompareTo \/ SetExpX \/ SetExpY

SpecCompare == InitCompare /\ [][NextCompare]_vars

(* C4: compare never fails and returns -1, 0 or 1, the sign of             *)
(* xc*10^xe - yc*10^ye; replacing an operand by a numerically equal pair   *)
(* does not change the result.                                             *)
CompareIsSign ==
    /\ ret.op = "compare" =>
        /\ ret.out.ok
        /\ ret.out.val \in {-1, 0, 1}
        /\ ret.out.val = RatSgn(RatSub(RatOf(ret.x), RatOf(ret.y)))
        /\ ret.out.val = RatSgn(ref)
    /\ Cardinality(hist) <= 1

\* the same two numbers were compared in two representations, with the
\* lower exponent once on each side
CompareIsSignWitness ==
    /\ ret.op = "compare"
    /\ ret.x = Decimal(120, -1)
    /\ ret.y = Decimal(12, 0)
    /\ ret.out.val = 0
    /\ acc.exp < ret.x.exp

----------------------------------------------------------------------------
(* Division: a program that holds a dividend x (acc) and a divisor y (arg) *)
(* and calls divide once, with or without expOut and rounding.             *)

Dividends ==
    [coef : Coefs(MaxOperand) \cup {-15, 25}, exp : Exps(MaxExp)]
        \cup {Decimal(12345, -2)}

Divisors ==
    [coef : Coefs(MaxOperand) \cup {-4}, exp : Exps(MaxExp)]
        \cup {Decimal(6789, -3)}

\* the divisor's exponent once divide has brought a positive one to 0
DivisorExp(y) == IF y.exp > 0 THEN 0 ELSE y.exp

\* the divisor's coefficient at that exponent
DivisorCoef(y) == IF y.exp > 0 THEN y.coef * Pow10(y.exp) ELSE y.coef

\* the calls whose rescaled dividend the model can hold
Representable(x, y, expOut) ==
    LET shift == x.exp - expOut - DivisorExp(y)
    IN IF shift <= 0 THEN TRUE
       ELSE IF shift > 9 THEN FALSE
       ELSE Pow10(shift) <= MaxScaled \div Max(Abs(x.coef), 1)

InitDivide ==
    /\ acc \in Dividends
    /\ arg \in Divisors
    /\ ret = NoCall
    /\ ref = RatOf(acc)
    /\ hist = {}
    /\ defaultRounding = "HALF_UP"

\* divide(xc, xe, yc, ye)
DivideDefault ==
    /\ ret = NoCall
    /\ Representable(acc, arg, acc.exp)
    /\ ret' = [op |-> "divide", x |-> acc, y |-> arg, given |-> 4,
               expOut |-> acc.exp, rounding |-> defaultRounding,
               out |-> divide(acc.coef, acc.exp, arg.coef, arg.exp,
                              acc.exp, defaultRounding)]
    /\ UNCHANGED <<acc, arg, ref, hist, defaultRounding>>

\* divide(xc, xe, yc, ye, expOut)
DivideExpOut ==
    /\ ret = NoCall
    /\ \E expOut \in Exps(MaxAccExp) :
        /\ Representable(acc, arg, expOut)
        /\ ret' = [op |-> "divide", x |-> acc, y |-> arg, given |-> 5,
                   expOut |-> expOut, rounding |-> defaultRounding,
                   out |-> divide(acc.coef, acc.exp, arg.coef, arg.exp,
                                  expOut, defaultRounding)]
    /\ UNCHANGED <<acc, arg, ref, hist, defaultRounding>>

\* divide(xc, xe, yc, ye, expOut, rounding)
DivideRounding ==
    /\ ret = NoCall
    /\ \E expOut \in Exps(MaxAccExp), rounding \in RoundingModes :
        /\ Representable(acc, arg, expOut)
        /\ ret' = [op |-> "divide", x |-> acc, y |-> arg, given |-> 6,
                   expOut |-> expOut, rounding |-> rounding,
                   out |-> divide(acc.coef, acc.exp, arg.coef, arg.exp,
                                  expOut, rounding)]
    /\ UNCHANGED <<acc, arg, ref, hist, defaultRounding>>

NextDivide == DivideDefault \/ DivideExpOut \/ DivideRounding

SpecDivide == InitDivide /\ [][NextDivide]_vars

\* the double-rounding condition of the call recorded in ret
RoundsTwice == ret.expOut + DivisorExp(ret.y) - ret.x.exp > 0

(* C5: an accepted divide returns exponent expOut and coefficient          *)
(* mode(xc * 10^(xe - expOut - ye'), yc'), which is within one unit of the *)
(* exact quotient (a single rounding); without expOut the exponent is xe;  *)
(* divide(12345, -2, 6789, -3) = (1818, -2) under the default mode.        *)
DivideRoundsOnce ==
    (ret.op = "divide" /\ ret.out.ok) =>
        LET n == ret.x.coef * Pow10(ret.x.exp - ret.expOut - DivisorExp(ret.y))
            d == DivisorCoef(ret.y)
            q == ret.out.val.coef
        IN /\ ret.out.val.exp = ret.expOut
           /\ q = Rounding(ret.rounding, n, d).val
           /\ Abs(q * d - n) < Abs(d)
           /\ ret.given = 4 => ret.out.val.exp = ret.x.exp
           /\ ret.given < 6 => q = HALF_UP(n, d).val
           /\ (ret.given = 4 /\ ret.x = Decimal(12345, -2)
                 /\ ret.y = Decimal(6789, -3)) => ret.out.val = Decimal(1818, -2)

\* the documented division was made
DivideRoundsOnceWitness ==
    /\ ret.op = "divide" /\ ret.out.ok
    /\ ret.given = 4
    /\ ret.x = Decimal(12345, -2) /\ ret.y = Decimal(6789, -3)
    /\ ret.out.val = Decimal(1818, -2)

(* C6: divide fails with a RangeError, before it rescales the dividend or  *)
(* divides, whenever expOut + expY - expX > 0 (expY taken as 0 when the    *)
(* divisor's exponent is positive); when that is false and the divisor's   *)
(* coefficient is nonzero, divide does not fail.                           *)
DivideGuard ==
    ret.op = "divide" =>
        /\ RoundsTwice =>
            /\ ~ret.out.ok
            /\ ret.out.err = "RangeError"
            /\ ret.out.by = "divide"
            /\ \A i \in DOMAIN ret.out.steps :
                   ret.out.steps[i] \notin {"scaleCoefSafe(xc)", "rounding", "new"}
        /\ (~RoundsTwice /\ ret.y.coef # 0) => ret.out.ok

\* a call was rejected whose divisor has a positive exponent: it counts
\* as 0 in the condition
DivideGuardWitness ==
    /\ ret.op = "divide"
    /\ RoundsTwice /\ ~ret.out.ok
    /\ ret.y.exp > 0
    /\ ret.expOut = ret.x.exp + 1

(* C7 as stated: a zero divisor coefficient always makes divide fail with  *)
(* a RangeError raised by a zero check of divide itself.                   *)
DivideZeroExplicit ==
    (ret.op = "divide" /\ ret.y.coef = 0) =>
        /\ ~ret.out.ok
        /\ ret.out.err = "RangeError"
        /\ ret.out.by = "divide"

(* C7 as amended: a zero divisor coefficient always makes divide fail with *)
(* a RangeError and never return a Decimal; the error is raised by the     *)
(* double-rounding guard when that applies and otherwise by the bigint     *)
(* division inside the rounding mode: divide has no zero check of its own. *)
DivideZeroFails ==
    (ret.op = "divide" /\ ret.y.coef = 0) =>
        /\ ~ret.out.ok
        /\ ret.out.err = "RangeError"
        /\ ret.out.by = (IF RoundsTwice THEN "divide" ELSE "bigint division")

\* zero was divided by zero under a mode other than the default, the call
\* having passed the guard
DivideZeroFailsWitness ==
    /\ ret.op = "divide" /\ ret.y.coef = 0
    /\ ~RoundsTwice
    /\ ret.x.coef = 0
    /\ ret.rounding = "DOWN"
    /\ ~ret.out.ok

----------------------------------------------------------------------------
(* The Rounding Engine on its own: a program that holds a dividend n and a *)
(* divisor div (arg) and applies the rounding divisions to them.           *)

InitRound ==
    /\ arg \in [n : Coefs(MaxDividend), div : Coefs(MaxDivisor)]
    /\ acc = Decimal(0, 0)
    /\ ret = NoCall
    /\ ref = RatOf(acc)
    /\ hist = {}
    /\ defaultRounding = "HALF_UP"

\* the record of a call of the rounding division named rounding
Rounded(rounding, out) ==
    [op |-> rounding, n |-> arg.n, div |-> arg.div, out |-> out]

RoundHalfUp ==
    /\ ret' = Rounded("HALF_UP", HALF_UP(arg.n, arg.div))
    /\ UNCHANGED <<acc, arg, ref, hist, defaultRounding>>

RoundHalfToEven ==
    /\ ret' = Rounded("HALF_TO_EVEN", HALF_TO_EVEN(arg.n, arg.div))
    /\ UNCHANGED <<acc, arg, ref, hist, defaultRounding>>

RoundUp ==
    /\ ret' = Rounded("UP", UP(arg.n, arg.div))
    /\ UNCHANGED <<acc, arg, ref, hist, defaultRounding>>

RoundDown ==
    /\ ret' = Rounded("DOWN", DOWN(arg.n, arg.div))
    /\ UNCHANGED <<acc, arg, ref, hist, defaultRounding>>

RoundTowardPositiveInfinity ==
    /\ ret' = Rounded("TOWARD_POSITIVE_INFINITY",
                      TOWARD_POSITIVE_INFINITY(arg.n, arg.div))
    /\ UNCHANGED <<acc, arg, ref, hist, defaultRounding>>

RoundTowardNegativeInfinity ==
    /\ ret' = Rounded("TOWARD_NEGATIVE_INFINITY",
                      TOWARD_NEGATIVE_INFINITY(arg.n, arg.div))
    /\ UNCHANGED <<acc, arg, ref, hist, defaultRounding>>

NextRound ==
    \/ RoundHalfUp
    \/ RoundHalfToEven
    \/ RoundUp
    \/ RoundDown
    \/ RoundTowardPositiveInfinity
    \/ RoundTowardNegativeInfinity

SpecRound == InitRound /\ [][NextRound]_vars

\* the sign of the true quotient n / div
QuotientSgn(n, div) == Sgn(n) * Sgn(div)

\* v is an integer nearest to n / div
Nearest(v, n, div) == 2 * Abs(n - v * div) <= Abs(div)

\* n / div lies exactly halfway between two integers
Tie(n, div) == 2 * Abs(BigIntRem(n, div)) = Abs(div)

(* C8: for nonzero div, HALF_UP(n, div) is the integer nearest to n/div,   *)
(* a tie going away from zero: the truncated quotient q when |2r| < |div|, *)
(* q stepped by 1 in the direction of the sign of n/div otherwise;         *)
(* HALF_UP(5, 10) = 1.                                                     *)
HalfUpNearest ==
    (ret.op = "HALF_UP" /\ ret.div # 0) =>
        LET q == BigIntDiv(ret.n, ret.div)
            r == BigIntRem(ret.n, ret.div)
            v == ret.out.val
        IN /\ ret.out.ok
           /\ Nearest(v, ret.n, ret.div)
           /\ Tie(ret.n, ret.div) => Abs(v * ret.div) > Abs(ret.n)
           /\ Abs(2 * r) < Abs(ret.div) => v = q
           /\ Abs(2 * r) >= Abs(ret.div) => v = q + QuotientSgn(ret.n, ret.div)
           /\ (ret.n = 5 /\ ret.div = 10) => v = 1

\* a tie with a negative dividend and a positive divisor was rounded
HalfUpNearestWitness ==
    /\ ret.op = "HALF_UP"
    /\ ret.n < 0 /\ ret.div > 0
    /\ Tie(ret.n, ret.div)
    /\ ret.out.val = BigIntDiv(ret.n, ret.div) - 1

(* C9: for nonzero div, HALF_TO_EVEN(n, div) is the integer nearest to     *)
(* n/div and, on a tie, the even one of the two; it differs from           *)
(* HALF_UP(n, div) only on ties whose truncated quotient is even;          *)
(* HALF_TO_EVEN(5, 10) = 0 and HALF_TO_EVEN(15, 10) = 2.                   *)
HalfToEvenNearest ==
    (ret.op = "HALF_TO_EVEN" /\ ret.div # 0) =>
        LET q == BigIntDiv(ret.n, ret.div)
            v == ret.out.val
        IN /\ ret.out.ok
           /\ Nearest(v, ret.n, ret.div)
           /\ Tie(ret.n, ret.div) => v % 2 = 0
           /\ v # HALF_UP(ret.n, ret.div).val =>
                  (Tie(ret.n, ret.div) /\ q % 2 = 0)
           /\ (ret.n = 5 /\ ret.div = 10) => v = 0
           /\ (ret.n = 15 /\ ret.div = 10) => v = 2

\* a tie between a negative even and a negative odd integer was rounded,
\* the divisor being negative
HalfToEvenNearestWitness ==
    /\ ret.op = "HALF_TO_EVEN"
    /\ ret.n > 0 /\ ret.div < 0
    /\ Tie(ret.n, ret.div)
    /\ BigIntDiv(ret.n, ret.div) % 2 = 0
    /\ BigIntDiv(ret.n, ret.div) < 0
    /\ ret.out.val = BigIntDiv(ret.n, ret.div)

(* C10: for nonzero div, DOWN(n, div) is n/div truncated toward zero;      *)
(* UP(n, div) is DOWN(n, div) when div divides n and otherwise DOWN(n,div) *)
(* moved by 1 away from zero, in the direction of the sign of n/div; so    *)
(* |DOWN| <= |n/div| <= |UP|.                                              *)
UpDownTruncate ==
    /\ (ret.op = "DOWN" /\ ret.div # 0) =>
        LET v == ret.out.val
        IN /\ ret.out.ok
           /\ Abs(v * ret.div) <= Abs(ret.n)
           /\ Abs(ret.n) - Abs(v * ret.div) < Abs(ret.div)
           /\ Sgn(v) \in {0, QuotientSgn(ret.n, ret.div)}
    /\ (ret.op = "UP" /\ ret.div # 0) =>
        LET v == ret.out.val
            down == DOWN(ret.n, ret.div).val
        IN /\ ret.out.ok
           /\ ret.n % Abs(ret.div) = 0 => v = down
           /\ ret.n % Abs(ret.div) # 0 =>
                  /\ v = down + QuotientSgn(ret.n, ret.div)
                  /\ Abs(v) = Abs(down) + 1
           /\ Abs(down * ret.div) <= Abs(ret.n)
           /\ Abs(ret.n) <= Abs(v * ret.div)

\* an inexact quotient of a negative dividend by a negative divisor was
\* rounded up, away from zero
UpDownTruncateWitness ==
    /\ ret.op = "UP"
    /\ ret.n < 0 /\ ret.div < 0
    /\ BigIntRem(ret.n, ret.div) # 0
    /\ ret.out.val = BigIntDiv(ret.n, ret.div) + 1

\* v <= n / div, the true quotient
AtMostQuotient(v, n, div) ==
    IF div > 0 THEN v * div <= n ELSE v * div >= n

\* v >= n / div, the true quotient
AtLeastQuotient(v, n, div) ==
    IF div > 0 THEN v * div >= n ELSE v * div <= n

\* v is the floor of n / div: v <= n/div < v + 1
IsFloor(v, n, div) ==
    AtMostQuotient(v, n, div) /\ ~AtMostQuotient(v + 1, n, div)

\* v is the ceiling of n / div: v - 1 < n/div <= v
IsCeiling(v, n, div) ==
    AtLeastQuotient(v, n, div) /\ ~AtLeastQuotient(v - 1, n, div)

(* C11 as stated: for nonzero div, TOWARD_POSITIVE_INFINITY(n, div) is the *)
(* floor of n/div and TOWARD_NEGATIVE_INFINITY(n, div) is the ceiling.     *)
TowardInfinityFloorCeiling ==
    /\ (ret.op = "TOWARD_POSITIVE_INFINITY" /\ ret.div # 0) =>
           (ret.out.ok /\ IsFloor(ret.out.val, ret.n, ret.div))
    /\ (ret.op = "TOWARD_NEGATIVE_INFINITY" /\ ret.div # 0) =>
           (ret.out.ok /\ IsCeiling(ret.out.val, ret.n, ret.div))

(* C11 as amended: for nonzero div (negative divisors included),           *)
(* TOWARD_POSITIVE_INFINITY(n, div) is the ceiling of n/div and            *)
(* TOWARD_NEGATIVE_INFINITY(n, div) is the floor of n/div.                 *)
TowardInfinityCeilingFloor ==
    /\ (ret.op = "TOWARD_POSITIVE_INFINITY" /\ ret.div # 0) =>
           (ret.out.ok /\ IsCeiling(ret.out.val, ret.n, ret.div))
    /\ (ret.op = "TOWARD_NEGATIVE_INFINITY" /\ ret.div # 0) =>
           (ret.out.ok /\ IsFloor(ret.out.val, ret.n, ret.div))

\* an inexact quotient of a negative dividend by a negative divisor was
\* rounded toward plus infinity, above the truncated quotient
TowardInfinityCeilingFloorWitness ==
    /\ ret.op = "TOWARD_POSITIVE_INFINITY"
    /\ ret.n < 0 /\ ret.div < 0
    /\ BigIntRem(ret.n, ret.div) # 0
    /\ ret.out.val = BigIntDiv(ret.n, ret.div) + 1

(* C12: for nonzero div, TOWARD_NEGATIVE_INFINITY(n, div) <= n/div <=      *)
(* TOWARD_POSITIVE_INFINITY(n, div); the two are equal when div divides n  *)
(* and differ by exactly 1 otherwise; the result of each of the other four *)
(* modes is one of these two values.                                       *)
TowardInfinityBracket ==
    (ret.op \in RoundingModes /\ ret.div # 0) =>
        LET lo == TOWARD_NEGATIVE_INFINITY(ret.n, ret.div).val
            hi == TOWARD_POSITIVE_INFINITY(ret.n, ret.div).val
            v == ret.out.val
        IN /\ ret.out.ok
           /\ ret.op = "TOWARD_NEGATIVE_INFINITY" =>
                  /\ AtMostQuotient(v, ret.n, ret.div)
                  /\ hi - v = (IF ret.n % Abs(ret.div) = 0 THEN 0 ELSE 1)
           /\ ret.op = "TOWARD_POSITIVE_INFINITY" =>
                  /\ AtLeastQuotient(v, ret.n, ret.div)
                  /\ v - lo = (IF ret.n % Abs(ret.div) = 0 THEN 0 ELSE 1)
           /\ ret.op \notin {"TOWARD_NEGATIVE_INFINITY", "TOWARD_POSITIVE_INFINITY"}
                  => v \in {lo, hi}

\* a tie of a positive dividend and a negative divisor was rounded half up
\* to the lower of the two values
TowardInfinityBracketWitness ==
    /\ ret.op = "HALF_UP"
    /\ ret.n > 0 /\ ret.div < 0
    /\ Tie(ret.n, ret.div)
    /\ ret.out.val = TOWARD_NEGATIVE_INFINITY(ret.n, ret.div).val
    /\ ret.out.val # TOWARD_POSITIVE_INFINITY(ret.n, ret.div).val

----------------------------------------------------------------------------
(* Rescaling: a program that holds a Decimal (acc) and calls setExp on it, *)
(* with or without a rounding mode.                                        *)

SetExpCoefs == Coefs(MaxOperand) \cup {15, -15, 25, -25, 149, -250}

InitSetExp ==
    /\ acc \in [coef : SetExpCoefs, exp : Exps(MaxExp)]
    /\ arg = NoCall
    /\ ret = NoCall
    /\ ref = RatOf(acc)
    /\ hist = {}
    /\ defaultRounding = "HALF_UP"

\* x.setExp(expTo)
SetExpDefault ==
    \E expTo \in Exps(MaxAccExp) :
        LET out == setExp(acc, expTo, defaultRounding)
        IN /\ ret' = [op |-> "setExp", x |-> acc, expTo |-> expTo, given |-> 1,
                      rounding |-> defaultRounding, out |-> out]
           /\ UNCHANGED <<acc, arg, ref, hist, defaultRounding>>

\* x.setExp(expTo, rounding)
SetExpRounding ==
    \E expTo \in Exps(MaxAccExp), rounding \in RoundingModes :
        LET out == setExp(acc, expTo, rounding)
        IN /\ ret' = [op |-> "setExp", x |-> acc, expTo |-> expTo, given |-> 2,
                      rounding |-> rounding, out |-> out]
           /\ UNCHANGED <<acc, arg, ref, hist, defaultRounding>>

NextSetExp == SetExpDefault \/ SetExpRounding

SpecSetExp == InitSetExp /\ [][NextSetExp]_vars

(* C13: setExp(x, expTo, mode) returns a Decimal of exponent expTo whose   *)
(* coefficient is scaleCoef(coef, exp, expTo, mode): coef*10^(exp-expTo)   *)
(* when expTo < exp (the value unchanged), coef when expTo = exp, and      *)
(* mode(coef, 10^(expTo-exp)) when expTo > exp.                            *)
SetExpRescales ==
    ret.op = "setExp" =>
        LET x == ret.x
            c == ret.out.val.coef
        IN /\ ret.out.ok
           /\ ret.out.val.exp = ret.expTo
           /\ c = scaleCoef(x.coef, x.exp, ret.expTo, ret.rounding).val
           /\ ret.expTo < x.exp =>
                  /\ c = x.coef * Pow10(x.exp - ret.expTo)
                  /\ RatOf(ret.out.val) = RatOf(x)
           /\ ret.expTo = x.exp => c = x.coef
           /\ ret.expTo > x.exp =>
                  c = Rounding(ret.rounding, x.coef, Pow10(ret.expTo - x.exp)).val

\* a coefficient that is not a multiple of the divisor was coarsened by two
\* digits under a mode other than the default, changing the value
SetExpRescalesWitness ==
    /\ ret.op = "setExp" /\ ret.given = 2
    /\ ret.rounding = "HALF_TO_EVEN"
    /\ ret.expTo = ret.x.exp + 2
    /\ ret.x.coef < 0
    /\ RatOf(ret.out.val) # RatOf(ret.x)
    /\ ret.out.val.coef # 0

----------------------------------------------------------------------------
(* Strings of the language: a string is the sequence of its characters.    *)

DigitChars == <<"0", "1", "2", "3", "4", "5", "6", "7", "8", "9">>

DigitChar(d) == DigitChars[d + 1]

IsDigit(ch) == \E d \in 0 .. 9 : DigitChars[d + 1] = ch

DigitValue(ch) == CHOOSE d \in 0 .. 9 : DigitChars[d + 1] = ch

RECURSIVE NatToString(_)
\* the decimal digits of n >= 0, most significant first, no leading zero
NatToString(n) ==
    IF n < 10 THEN <<DigitChar(n)>>
    ELSE Append(NatToString(n \div 10), DigitChar(n % 10))

\* bigint.toString()
BigIntToString(n) ==
    IF n < 0 THEN <<"-">> \o NatToString(-n) ELSE NatToString(n)

\* a relative index of slice: negative counts from the end, both ends clamp
SliceIndex(i, len) == IF i < 0 THEN Max(len + i, 0) ELSE Min(i, len)

\* s.slice(start, end)
Slice(s, start, end) ==
    LET from == SliceIndex(start, Len(s))
        to == SliceIndex(end, Len(s))
    IN IF from >= to THEN <<>> ELSE SubSeq(s, from + 1, to)

\* s.slice(start)
SliceFrom(s, start) == Slice(s, start, Len(s))

RECURSIVE padStart(_, _, _)
\* s.padStart(targetLength, ch)
padStart(s, targetLength, ch) ==
    IF Len(s) >= targetLength THEN s
    ELSE padStart(<<ch>> \o s, targetLength, ch)

----------------------------------------------------------------------------
(* Formatting: stringify and isInteger *)

stringify_NoFractionPad(coef, exp) ==
    IF exp >= 0
    THEN LET sc == scaleCoefSafe(coef, exp, 0)
         IN IF ~sc.ok THEN sc ELSE Ok(BigIntToString(sc.val))
    ELSE LET sign == IF coef < 0 THEN <<"-">> ELSE <<>>
             digits == SliceFrom(BigIntToString(coef), IF coef < 0 THEN 1 ELSE 0)
             integer == padStart(Slice(digits, 0, exp), 1, "0")
             fraction == SliceFrom(digits, exp)
         IN Ok(sign \o integer \o <<".">> \o fraction)

stringify(coef, exp) ==
    IF exp >= 0
    THEN LET sc == scaleCoefSafe(coef, exp, 0)
         IN IF ~sc.ok THEN sc ELSE Ok(BigIntToString(sc.val))
    ELSE LET sign == IF coef < 0 THEN <<"-">> ELSE <<>>
             digits == SliceFrom(BigIntToString(coef), IF coef < 0 THEN 1 ELSE 0)
             integer == padStart(Slice(digits, 0, exp), 1, "0")
             fraction == padStart(SliceFrom(digits, exp), -exp, "0")
         IN Ok(sign \o integer \o <<".">> \o fraction)

isInteger_LastDigitOnly(coef, exp) ==
    exp >= 0 \/ BigIntRem(coef, 10) = 0

isInteger(coef, exp) ==
    exp >= 0 \/ BigIntRem(coef, Pow10(-exp)) = 0

----------------------------------------------------------------------------
(* Construction: parse and create *)

\* an optional argument that was not passed, or a capture group that did
\* not take part in the match (undefined)
Absent == <<>>

\* an optional argument that was passed
Given(v) == <<v>>

\* the value parse returns for a text that is not a number
null == [null |-> TRUE]

WhiteSpace == {" "}

RECURSIVE trim(_)
\* x.trim()
trim(x) ==
    IF x = <<>> THEN x
    ELSE IF Head(x) \in WhiteSpace THEN trim(Tail(x))
    ELSE IF x[Len(x)] \in WhiteSpace THEN trim(SubSeq(x, 1, Len(x) - 1))
    ELSE x

RECURSIVE DigitsToNat(_)
DigitsToNat(s) ==
    IF s = <<>> THEN 0
    ELSE 10 * DigitsToNat(SubSeq(s, 1, Len(s) - 1)) + DigitValue(s[Len(s)])

\* BigInt(s) and Number.parseInt(s) of an optional sign followed by digits
StringToBigInt(s) ==
    IF s # <<>> /\ Head(s) = "-" THEN -DigitsToNat(Tail(s))
    ELSE IF s # <<>> /\ Head(s) = "+" THEN DigitsToNat(Tail(s))
    ELSE DigitsToNat(s)

RECURSIVE replace(_, _)
\* s.replace(ch, ""): s without its first ch
replace(s, ch) ==
    IF s = <<>> THEN s
    ELSE IF Head(s) = ch THEN Tail(s)
    ELSE <<Head(s)>> \o replace(Tail(s), ch)

RECURSIVE Scan(_, _, _, _)
\* the automaton of /^([+-]?)([0-9]+|[0-9]*\.([0-9]+))(?:e([+-]?[0-9]+))?$/i
\* reading s from position i in state q with the capture groups m so far:
\* the groups at the end of s if the state accepts, null otherwise
Scan(s, i, q, m) ==
    IF i > Len(s)
    THEN IF q \in {"integer", "fraction", "exponent"} THEN m ELSE null
    ELSE LET ch == s[i]
         IN CASE q = "start" /\ ch \in {"+", "-"} ->
                     Scan(s, i + 1, "signed", [m EXCEPT !.m1 = <<ch>>])
              [] q \in {"start", "signed", "integer"} /\ IsDigit(ch) ->
                     Scan(s, i + 1, "integer", [m EXCEPT !.m2 = Append(@, ch)])
              [] q \in {"start", "signed", "integer"} /\ ch = "." ->
                     Scan(s, i + 1, "point", [m EXCEPT !.m2 = Append(@, ch)])
              [] q \in {"point", "fraction"} /\ IsDigit(ch) ->
                     Scan(s, i + 1, "fraction",
                          [m EXCEPT !.m2 = Append(@, ch), !.m3 = Append(@, ch)])
              [] q \in {"integer", "fraction"} /\ ch \in {"e", "E"} ->
                     Scan(s, i + 1, "e", m)
              [] q = "e" /\ ch \in {"+", "-"} ->
                     Scan(s, i + 1, "esigned", [m EXCEPT !.m4 = <<ch>>])
              [] q \in {"e", "esigned", "exponent"} /\ IsDigit(ch) ->
                     Scan(s, i + 1, "exponent", [m EXCEPT !.m4 = Append(@, ch)])
              [] OTHER -> null

\* s.match(regex): the capture groups m[1]..m[4], or null
match(s) ==
    Scan(s, 1, "start", [m1 |-> <<>>, m2 |-> <<>>, m3 |-> Absent, m4 |-> Absent])

\* parse, once coef and expCoded are known
parseCoded(coef, expCoded, exp) ==
    IF exp = Absent THEN Ok(Decimal(coef, expCoded))
    ELSE IF ~isInteger(coef, expCoded) THEN Throw("TypeError", "parse")
    ELSE LET sc == scaleCoefSafe(coef, expCoded, 0)
         IN IF ~sc.ok THEN sc ELSE Ok(Decimal(sc.val, exp[1]))

parseMatch_NullCheckedLate(m, exp) ==
    IF m = null
    THEN IF exp = Absent THEN Ok(null) ELSE Throw("TypeError", "parse")
    ELSE parseCoded(
             StringToBigInt((IF m.m1 = <<"-">> THEN <<"-">> ELSE <<>>)
                            \o replace(m.m2, ".")),
             (IF m.m4 = Absent THEN 0 ELSE StringToBigInt(m.m4))
                 - (IF m.m3 = Absent THEN 0 ELSE Len(m.m3)),
             exp)

parseMatch_IgnoresFraction(m, exp) ==
    IF m = null THEN Ok(null)
    ELSE parseCoded(
             StringToBigInt((IF m.m1 = <<"-">> THEN <<"-">> ELSE <<>>)
                            \o replace(m.m2, ".")),
             IF m.m4 = Absent THEN 0 ELSE StringToBigInt(m.m4),
             exp)

\* parse, once the match m is known: sign, coef, lenFrac and expCoded
parseMatch(m, exp) ==
    IF m = null THEN Ok(null)
    ELSE parseCoded(
             StringToBigInt((IF m.m1 = <<"-">> THEN <<"-">> ELSE <<>>)
                            \o replace(m.m2, ".")),
             (IF m.m4 = Absent THEN 0 ELSE StringToBigInt(m.m4))
                 - (IF m.m3 = Absent THEN 0 ELSE Len(m.m3)),
             exp)

parse(x, exp) ==
    IF exp # Absent /\ ~checkExp(exp[1]).ok THEN checkExp(exp[1])
    ELSE parseMatch(match(trim(x)), exp)

\* String(x) of create's argument
String(x) ==
    CASE x.type = "string" -> x.text
      [] x.type = "number" -> x.text
      [] x.type = "bigint" -> BigIntToString(x.val)
      [] x.type = "Decimal" -> stringify(x.coef, x.exp).val

\* Number.isInteger(x): a number is the fraction num / den (den = 0: NaN or
\* an infinity) together with the text String(x)
NumberIsInteger(x) == x.den = 1

\* neither returned nor thrown: control goes to the bottom of create
GoToBottom == [bottom |-> TRUE]

createTop_ScalesToExp(x, exp) ==
    IF exp = Absent
    THEN IF x.type = "Decimal" THEN Ok(Decimal(x.coef, x.exp))
         ELSE IF x.type = "bigint" THEN Ok(Decimal(x.val, 0))
         ELSE IF x.type = "number" /\ NumberIsInteger(x)
         THEN Ok(Decimal(x.num, 0))
         ELSE GoToBottom
    ELSE IF ~checkExp(exp[1]).ok THEN checkExp(exp[1])
    ELSE IF x.type = "Decimal"
    THEN IF ~isInteger(x.coef, x.exp) THEN Throw("TypeError", "create")
         ELSE Ok(Decimal(scaleCoef(x.coef, x.exp, exp[1], "DOWN").val, exp[1]))
    ELSE IF x.type = "number"
    THEN IF ~NumberIsInteger(x) THEN Throw("TypeError", "create")
         ELSE Ok(Decimal(scaleCoef(x.num, 0, exp[1], "DOWN").val, exp[1]))
    ELSE IF x.type = "bigint"
    THEN Ok(Decimal(scaleCoef(x.val, 0, exp[1], "DOWN").val, exp[1]))
    ELSE GoToBottom

createTop_TruncatesFraction(x, exp) ==
    IF exp = Absent
    THEN IF x.type = "Decimal" THEN Ok(Decimal(x.coef, x.exp))
         ELSE IF x.type = "bigint" THEN Ok(Decimal(x.val, 0))
         ELSE IF x.type = "number" /\ NumberIsInteger(x)
         THEN Ok(Decimal(x.num, 0))
         ELSE GoToBottom
    ELSE IF ~checkExp(exp[1]).ok THEN checkExp(exp[1])
    ELSE IF x.type = "Decimal"
    THEN Ok(Decimal(scaleCoef(x.coef, x.exp, 0, "DOWN").val, exp[1]))
    ELSE IF x.type = "number"
    THEN IF ~NumberIsInteger(x) THEN Throw("TypeError", "create")
         ELSE Ok(Decimal(x.num, exp[1]))
    ELSE IF x.type = "bigint" THEN Ok(Decimal(x.val, exp[1]))
    ELSE GoToBottom

\* create down to "Trap fractional number and string"
createTop(x, exp) ==
    IF exp = Absent
    THEN IF x.type = "Decimal" THEN Ok(Decimal(x.coef, x.exp))
         ELSE IF x.type = "bigint" THEN Ok(Decimal(x.val, 0))
         ELSE IF x.type = "number" /\ NumberIsInteger(x)
         THEN Ok(Decimal(x.num, 0))
         ELSE GoToBottom
    ELSE IF ~checkExp(exp[1]).ok THEN checkExp(exp[1])
    ELSE IF x.type = "Decimal"
    THEN IF ~isInteger(x.coef, x.exp) THEN Throw("TypeError", "create")
         ELSE IF ~scaleCoefSafe(x.coef, x.exp, 0).ok
         THEN scaleCoefSafe(x.coef, x.exp, 0)
         ELSE Ok(Decimal(scaleCoefSafe(x.coef, x.exp, 0).val, exp[1]))
    ELSE IF x.type = "number"
    THEN IF ~NumberIsInteger(x) THEN Throw("TypeError", "create")
         ELSE Ok(Decimal(x.num, exp[1]))
    ELSE IF x.type = "bigint" THEN Ok(Decimal(x.val, exp[1]))
    ELSE GoToBottom

\* the bottom of create: a Decimal parsed, or the SyntaxError
createParsed(parsed) ==
    IF ~parsed.ok THEN parsed
    ELSE IF parsed.val # null THEN parsed
    ELSE Throw("SyntaxError", "create")

createBottom(x, exp, top) ==
    IF top # GoToBottom THEN top ELSE createParsed(parse(String(x), exp))

create(x, exp) == createBottom(x, exp, createTop(x, exp))

----------------------------------------------------------------------------
(* Formatting calls: a program that holds a Decimal (acc), renders it,    *)
(* asks whether it is an integer and parses the rendering back.            *)

StringifyCoefs == Coefs(MaxOperand) \cup {5, -15, 120, 1234, -7890, 12345000}

StringifyExps == Exps(2 * MaxAccExp)

RECURSIVE FitsScaled(_, _)
\* 10 ** exp and coef * 10 ** exp stay within MaxScaled
FitsScaled(coef, exp) ==
    IF exp <= 0 THEN TRUE
    ELSE IF Max(Abs(coef), 1) > MaxScaled \div 10 THEN FALSE
    ELSE FitsScaled(10 * Max(Abs(coef), 1), exp - 1)

InitStringify ==
    /\ acc \in [coef : StringifyCoefs, exp : StringifyExps]
    /\ arg = NoCall
    /\ ret = NoCall
    /\ ref = NoCall
    /\ hist = {}
    /\ defaultRounding = "HALF_UP"

\* BigIntAsDecimal.stringify(coef, exp), x.toString()
Stringify ==
    /\ FitsScaled(acc.coef, acc.exp)
    /\ ret' = [op |-> "stringify", coef |-> acc.coef, exp |-> acc.exp,
               out |-> stringify(acc.coef, acc.exp)]
    /\ UNCHANGED <<acc, arg, ref, hist, defaultRounding>>

\* BigIntAsDecimal.isInteger(coef, exp)
IsInteger ==
    /\ ret' = [op |-> "isInteger", coef |-> acc.coef, exp |-> acc.exp,
               out |-> isInteger(acc.coef, acc.exp)]
    /\ UNCHANGED <<acc, arg, ref, hist, defaultRounding>>

\* BigIntAsDecimal.parse(x.toString())
ParseStringified ==
    /\ ret.op = "stringify"
    /\ ret.out.ok
    /\ ret' = [op |-> "parse", x |-> ret.out.val, exp |-> Absent, from |-> acc,
               out |-> parse(ret.out.val, Absent)]
    /\ UNCHANGED <<acc, arg, ref, hist, defaultRounding>>

NextStringify == Stringify \/ IsInteger \/ ParseStringified

SpecStringify == InitStringify /\ [][NextStringify]_vars

(* C17: stringify(0, e) returns exactly "0" for every exponent e, negative *)
(* ones included: no decimal point and no fractional zeros.                *)
StringifyZeroIsZero ==
    (ret.op = "stringify" /\ ret.coef = 0) => ret.out = Ok(<<"0">>)

\* the value a digit string spells, computed from the left
RECURSIVE ValueOfDigits(_, _)
ValueOfDigits(s, v) ==
    IF s = <<>> THEN v
    ELSE ValueOfDigits(Tail(s), 10 * v + DigitValue(Head(s)))

AllDigits(s) == \A i \in 1 .. Len(s) : IsDigit(s[i])

\* a digit string that is "0" or does not start with "0"
Canonical(s) == Len(s) >= 1 /\ AllDigits(s) /\ (Len(s) > 1 => s[1] # "0")

(* C18: for a nonzero coefficient, stringify(coef, exp) is the plain       *)
(* fixed-point rendering of coef * 10^exp: a leading "-" exactly when      *)
(* coef < 0, then at least one integer digit with no superfluous leading   *)
(* zero; for exp >= 0 only digits, whose value is |coef| * 10^exp; for     *)
(* exp < 0 a "." followed by exactly -exp fraction digits, the digits      *)
(* around the point spelling |coef|. Nothing but digits, one sign and one  *)
(* point occurs, and the documented examples come out as documented.       *)
StringifyPlainFixedPoint ==
    (ret.op = "stringify" /\ ret.coef # 0) =>
        /\ ret.out.ok
        /\ LET s == ret.out.val
               body == IF Head(s) = "-" THEN Tail(s) ELSE s
               point == Len(body) + ret.exp
               integer == SubSeq(body, 1, point - 1)
               fraction == SubSeq(body, point + 1, Len(body))
           IN /\ (Head(s) = "-") <=> (ret.coef < 0)
              /\ ret.exp >= 0 =>
                     /\ Canonical(body)
                     /\ ValueOfDigits(body, 0) = Abs(ret.coef) * Pow10(ret.exp)
              /\ ret.exp < 0 =>
                     /\ point >= 2
                     /\ body[point] = "."
                     /\ Canonical(integer)
                     /\ AllDigits(fraction)
                     /\ Len(fraction) = -ret.exp
                     /\ ValueOfDigits(integer \o fraction, 0) = Abs(ret.coef)
        /\ (ret.coef = 1234 /\ ret.exp = -6) =>
               ret.out.val = <<"0", ".", "0", "0", "1", "2", "3", "4">>
        /\ (ret.coef = -7890 /\ ret.exp = 3) =>
               ret.out.val = <<"-", "7", "8", "9", "0", "0", "0", "0">>

\* a negative coefficient with fewer digits than the fraction needs was
\* rendered: the fraction is padded and the integer part is "0"
StringifyPlainFixedPointWitness ==
    /\ ret.op = "stringify"
    /\ ret.coef = -15
    /\ ret.exp = -3
    /\ ret.out = Ok(<<"-", "0", ".", "0", "1", "5">>)

(* C19: round trip. For every (coef, exp), parse(stringify(coef, exp))     *)
(* without an exponent argument returns a Decimal, never null and never an *)
(* error, and the Decimal is numerically equal to (coef, exp): compare of  *)
(* the two is 0 and both denote the same number (the exponent parsed back  *)
(* is exp when exp < 0 and 0 otherwise).                                   *)
StringifyParseRoundTrip ==
    ret.op = "parse" =>
        /\ ret.out.ok
        /\ ret.out.val # null
        /\ ret.out.val.exp = Min(ret.from.exp, 0)
        /\ compare(ret.out.val.coef, ret.out.val.exp,
                   ret.from.coef, ret.from.exp) = Ok(0)
        /\ RatOf(ret.out.val) = RatOf(ret.from)

\* a Decimal of positive exponent came back in another representation
StringifyParseRoundTripWitness ==
    /\ ret.op = "parse"
    /\ ret.from.exp > 0
    /\ ret.from.coef < 0
    /\ ret.out.ok
    /\ ret.out.val # ret.from
    /\ ret.out.val.exp = 0

\* coef * 10^exp is a whole number: its fraction in lowest terms has
\* denominator 1
IsWhole(coef, exp) == Rat(coef, Pow10(-exp)).den = 1

(* C20: isInteger(coef, exp) is true exactly when coef * 10^exp is a       *)
(* mathematical integer: always for exp >= 0, and for exp < 0 iff coef is  *)
(* divisible by 10^(-exp). 12345000 is an integer at exponents 6 down to   *)
(* -3 and not at -4, -5, -6; a zero coefficient is one at every exponent.  *)
IsIntegerExact ==
    ret.op = "isInteger" =>
        /\ ret.out <=> IsWhole(ret.coef, ret.exp)
        /\ ret.exp >= 0 => ret.out
        /\ ret.exp < 0 =>
               (ret.out <=> \E k \in 0 .. (Abs(ret.coef) \div Pow10(-ret.exp)) :
                                k * Pow10(-ret.exp) = Abs(ret.coef))
        /\ ret.coef = 12345000 => (ret.out <=> ret.exp >= -3)
        /\ ret.coef = 0 => ret.out

\* 12345000 * 10^-4 = 1234.5 was found not to be an integer
IsIntegerExactWitness ==
    /\ ret.op = "isInteger"
    /\ ret.coef = 12345000
    /\ ret.exp = -4
    /\ ret.out = FALSE

----------------------------------------------------------------------------
(* Construction calls: a program that holds a value (arg) of one of the    *)
(* types create accepts and calls parse or create on it, with or without   *)
(* an exponent.                                                            *)

\* the longest text drawn from TextChars
MaxLen == 4

TextChars == {"0", "1", "5", ".", "-", "e"}

\* texts with the characters the short ones leave out: white space, "+",
\* "E", letters, separators
ExtraTexts ==
    { <<" ", "1", "5", " ">>,
      <<" ", "-", ".", "5", "E", "+", "1", " ">>,
      <<"+", "1", "5", "0", "e", "-", "1">>,
      <<"1", "5", "e", "-", "1">>,
      <<"-", "1", "e", "-", "1">>,
      <<"1", ".", "5", "0">>,
      <<"1", ".", "5", "e", "1">>,
      <<"1", "e", "+", "1">>,
      <<"1", "e", "1", ".", "5">>,
      <<"1", ".", "5", ".", "1">>,
      <<"1", ".", "5", "0", "E", "1">>,
      <<"1", " ", "5">>,
      <<"1", ",", "5">>,
      <<"0", "x", "1", "f">>,
      <<"1", "5", "n">>,
      <<"N", "a", "N">>,
      <<"+", "-", "1">>,
      <<" ">> }

Texts == UNION {[1 .. n -> TextChars] : n \in 0 .. MaxLen} \cup ExtraTexts

CreateCoefs == Coefs(MaxOperand) \cup {15, -150, 1200}

\* numbers that are not integers, each with String(x)
Fractions ==
    { [type |-> "number", num |-> 3, den |-> 2, text |-> <<"1", ".", "5">>],
      [type |-> "number", num |-> -1, den |-> 4,
       text |-> <<"-", "0", ".", "2", "5">>],
      [type |-> "number", num |-> 1, den |-> 10000000,
       text |-> <<"1", "e", "-", "7">>],
      [type |-> "number", num |-> 0, den |-> 0, text |-> <<"N", "a", "N">>] }

Values ==
    [type : {"string"}, text : Texts]
    \cup [type : {"Decimal"}, coef : CreateCoefs, exp : Exps(MaxExp)]
    \cup [type : {"bigint"}, val : CreateCoefs]
    \cup {[type |-> "number", num |-> k, den |-> 1, text |-> BigIntToString(k)] :
             k \in CreateCoefs}
    \cup Fractions

\* a Decimal whose 10 ** |exp| and scaled coefficient stay within MaxScaled
ScalableDecimal(d) ==
    IF d = null THEN TRUE
    ELSE IF d.exp < 0 THEN FitsScaled(1, -d.exp)
    ELSE FitsScaled(d.coef, d.exp)

\* a value whose conversion with an exponent stays within MaxScaled
Scalable(x) ==
    IF x.type # "string" THEN TRUE
    ELSE ScalableDecimal(parse(x.text, Absent).val)

InitCreate ==
    /\ acc = NoCall
    /\ arg \in Values
    /\ ret = NoCall
    /\ ref = NoCall
    /\ hist = {}
    /\ defaultRounding = "HALF_UP"

\* BigIntAsDecimal.parse(x)
Parse ==
    /\ arg.type = "string"
    /\ ret' = [op |-> "parse", x |-> arg, exp |-> Absent,
               out |-> parse(arg.text, Absent)]
    /\ UNCHANGED <<acc, arg, ref, hist, defaultRounding>>

\* BigIntAsDecimal.parse(x, exp)
ParseExp ==
    /\ arg.type = "string"
    /\ Scalable(arg)
    /\ \E exp \in Exps(MaxExp) :
           ret' = [op |-> "parse", x |-> arg, exp |-> Given(exp),
                   out |-> parse(arg.text, Given(exp))]
    /\ UNCHANGED <<acc, arg, ref, hist, defaultRounding>>

\* BigIntAsDecimal.create(x)
Create ==
    /\ ret' = [op |-> "create", x |-> arg, exp |-> Absent,
               out |-> create(arg, Absent)]
    /\ UNCHANGED <<acc, arg, ref, hist, defaultRounding>>

\* BigIntAsDecimal.create(x, exp)
CreateExp ==
    /\ Scalable(arg)
    /\ \E exp \in Exps(MaxExp) :
           ret' = [op |-> "create", x |-> arg, exp |-> Given(exp),
                   out |-> create(arg, Given(exp))]
    /\ UNCHANGED <<acc, arg, ref, hist, defaultRounding>>

NextCreate == Parse \/ ParseExp \/ Create \/ CreateExp

SpecCreate == InitCreate /\ [][NextCreate]_vars

\* the numeric grammar, read off the text: white space around
\* sign? mantissa (e sign? digits)?, the mantissa being digits, or digits
\* (possibly none) with a fraction of "." and digits; every other run of
\* digits has at least one
IsSign(s) == s \in {<<>>, <<"+">>, <<"-">>}

IsMantissa(s) ==
    \/ Len(s) >= 1 /\ AllDigits(s)
    \/ \E d \in 1 .. Len(s) - 1 :
           /\ s[d] = "."
           /\ AllDigits(SubSeq(s, 1, d - 1))
           /\ AllDigits(SubSeq(s, d + 1, Len(s)))

IsExponent(s) ==
    \/ s = <<>>
    \/ /\ s[1] \in {"e", "E"}
       /\ \E k \in 1 .. Min(2, Len(s)) :
              /\ IsSign(SubSeq(s, 2, k))
              /\ Len(s) > k
              /\ AllDigits(SubSeq(s, k + 1, Len(s)))

IsNumeral(s) ==
    \E a \in 0 .. Min(1, Len(s)), b \in 0 .. Len(s) :
        /\ a <= b
        /\ IsSign(SubSeq(s, 1, a))
        /\ IsMantissa(SubSeq(s, a + 1, b))
        /\ IsExponent(SubSeq(s, b + 1, Len(s)))

Numeric(s) ==
    \E i \in 1 .. Len(s) + 1, j \in 0 .. Len(s) :
        /\ \A k \in 1 .. Len(s) : (k < i \/ k > j) => s[k] \in WhiteSpace
        /\ IsNumeral(SubSeq(s, i, j))

(* C16: for a text that does not match the numeric grammar (optional sign, *)
(* digits with optional fraction, optional e-exponent, at least one        *)
(* digit), parse returns null and does not fail, whether or not an         *)
(* exponent is passed, and create on the same text fails with a            *)
(* SyntaxError.                                                            *)
NoMatchIsNullOrSyntaxError ==
    (ret.op \in {"parse", "create"} /\ ret.x.type = "string"
                                    /\ ~Numeric(ret.x.text)) =>
        /\ ret.op = "parse" => ret.out = Ok(null)
        /\ ret.op = "create" => (~ret.out.ok /\ ret.out.err = "SyntaxError")

\* parse was given an exponent and a text with a foreign character, and
\* returned null
NoMatchIsNullOrSyntaxErrorWitness ==
    /\ ret.op = "parse"
    /\ ret.exp = Given(1)
    /\ ret.x.text = <<"1", ",", "5">>
    /\ ret.out = Ok(null)

\* the number a numeral spells, read off the text: the digits of the
\* mantissa, shifted by the exponent less the length of the fraction
NotWhiteSpace(ch) == ch \notin WhiteSpace

\* the first position of s holding a character of set, Len(s) + 1 if none
Position(s, set) ==
    IF \E i \in 1 .. Len(s) : s[i] \in set
    THEN CHOOSE i \in 1 .. Len(s) :
             s[i] \in set /\ \A k \in 1 .. i - 1 : s[k] \notin set
    ELSE Len(s) + 1

SignOf(s) == IF s # <<>> /\ s[1] = "-" THEN -1 ELSE 1

MantissaValue(mantissa, shift) ==
    Rat(SignOf(mantissa) * ValueOfDigits(SelectSeq(mantissa, IsDigit), 0)
            * Pow10(shift),
        Pow10(-shift))

CoreValue(core, e) ==
    MantissaValue(SubSeq(core, 1, e - 1),
                  SignOf(SubSeq(core, e + 1, Len(core)))
                      * ValueOfDigits(SelectSeq(SubSeq(core, e + 1, Len(core)),
                                                IsDigit), 0)
                  - Max(0, e - 1 - Position(SubSeq(core, 1, e - 1), {"."})))

NumeralValue(s) ==
    CoreValue(SelectSeq(s, NotWhiteSpace),
              Position(SelectSeq(s, NotWhiteSpace), {"e", "E"}))

\* create's argument is a number: anything but a text outside the grammar
IsNumber(x) == x.type # "string" \/ Numeric(x.text)

\* the number create's argument denotes (a denominator of 0: not a number)
ValueOf(x) ==
    CASE x.type = "Decimal" -> RatOf(x)
      [] x.type = "bigint" -> Rat(x.val, 1)
      [] x.type = "number" -> IF x.den = 0 THEN [num |-> 0, den |-> 0]
                              ELSE Rat(x.num, x.den)
      [] x.type = "string" -> NumeralValue(x.text)

\* v is a whole multiple of 10^exp
IsMultiple(v, exp) ==
    v.den # 0 /\ Rat(v.num * Pow10(-exp), v.den * Pow10(exp)).den = 1

(* C14 as stated: create(value, exponent) fails with a TypeError when      *)
(* value is not a whole multiple of 10^exponent, and whenever it succeeds  *)
(* value was a whole multiple of 10^exponent.                              *)
CreateExactMultiple ==
    (ret.op = "create" /\ ret.exp # Absent /\ IsNumber(ret.x)) =>
        /\ ~IsMultiple(ValueOf(ret.x), ret.exp[1]) =>
               (~ret.out.ok /\ ret.out.err = "TypeError")
        /\ ret.out.ok => IsMultiple(ValueOf(ret.x), ret.exp[1])

(* C14, amended: create(value, exponent) on a number fails with a          *)
(* TypeError when value is not a whole number (a multiple of 10^0, not of  *)
(* 10^exponent); nothing is rounded, so whenever it succeeds value was a   *)
(* whole number k and the result is k * 10^exponent: the coefficient k,    *)
(* unrounded, with the exponent passed.                                    *)
CreateRejectsNonInteger ==
    (ret.op = "create" /\ ret.exp # Absent /\ IsNumber(ret.x)) =>
        /\ ValueOf(ret.x).den # 1 =>
               (~ret.out.ok /\ ret.out.err = "TypeError")
        /\ ret.out.ok =>
               /\ ValueOf(ret.x).den = 1
               /\ Rat(ret.out.val.coef, 1) = ValueOf(ret.x)
               /\ ret.out.val.exp = ret.exp[1]

\* 1.5, a whole multiple of 10^-1, was refused with exponent -1
CreateRejectsNonIntegerWitness ==
    /\ ret.op = "create"
    /\ ret.x = [type |-> "Decimal", coef |-> 15, exp |-> -1]
    /\ ret.exp = Given(-1)
    /\ ~ret.out.ok
    /\ ret.out.err = "TypeError"

(* C15: create(x, exp) takes x as an integer coefficient and exp as the    *)
(* decimal exponent: when x (a Decimal, bigint, number or numeric string)  *)
(* denotes a whole number k the result is exactly the Decimal (k, exp),    *)
(* and when x does not denote a whole number create fails with a           *)
(* TypeError.                                                              *)
CreateCoefficientAndExponent ==
    (ret.op = "create" /\ ret.exp # Absent /\ IsNumber(ret.x)) =>
        IF ValueOf(ret.x).den = 1
        THEN ret.out = Ok(Decimal(ValueOf(ret.x).num, ret.exp[1]))
        ELSE ~ret.out.ok /\ ret.out.err = "TypeError" /\ ret.out.val = 0

\* the text "+150e-1" denotes 15 and became 15 * 10^-1
CreateCoefficientAndExponentWitness ==
    /\ ret.op = "create"
    /\ ret.x.type = "string"
    /\ ret.x.text = <<"+", "1", "5", "0", "e", "-", "1">>
    /\ ret.exp = Given(-1)
    /\ ret.out = Ok(Decimal(15, -1))

----------------------------------------------------------------------------
(* Locale-aware formatting.  Intl.NumberFormat is the host's formatter: it *)
(* is modelled by what it returns for the locales and styles below, a list *)
(* of typed parts, and every use of it is recorded as a call.              *)

Part(type, value) == [type |-> type, value |-> value]

\* the value the host is given: a bigint has no fraction digits
HostNumber(neg, int, frac) == [neg |-> neg, int |-> int, frac |-> frac]

HostBigInt(n) == HostNumber(n < 0, Abs(n), <<>>)

GroupSeparator(locales) == IF locales = "de" THEN "." ELSE ","

DecimalSeparator(locales) == IF locales = "de" THEN "," ELSE "."

\* the integer digits as the host emits them: one part, or groups of three
RECURSIVE IntegerParts(_, _, _)
IntegerParts(ds, locales, useGrouping) ==
    IF ~useGrouping \/ Len(ds) <= 3 THEN <<Part("integer", ds)>>
    ELSE IntegerParts(SubSeq(ds, 1, Len(ds) - 3), locales, useGrouping)
             \o <<Part("group", <<GroupSeparator(locales)>>),
                  Part("integer", SubSeq(ds, Len(ds) - 2, Len(ds)))>>

RECURSIVE padEnd(_, _, _)
padEnd(s, targetLength, ch) ==
    IF Len(s) >= targetLength THEN s
    ELSE padEnd(s \o <<ch>>, targetLength, ch)

FractionParts(frac, locales, minimumFractionDigits) ==
    IF Len(frac) = 0 /\ minimumFractionDigits <= 0 THEN <<>>
    ELSE <<Part("decimal", <<DecimalSeparator(locales)>>),
           Part("fraction", padEnd(frac, minimumFractionDigits, "0"))>>

\* what the style puts before and after the number
StylePrefix(style, locales) ==
    IF style = "currency" /\ locales # "de"
    THEN <<Part("currency", <<"$">>)>> ELSE <<>>

StyleSuffix(style, locales) ==
    IF style = "currency" /\ locales = "de"
    THEN <<Part("literal", <<" ">>), Part("currency", <<"E">>)>>
    ELSE IF style = "unit"
    THEN <<Part("literal", <<" ">>), Part("unit", <<"k", "m">>)>>
    ELSE <<>>

\* new Intl.NumberFormat(locales, o).formatToParts(v)
formatToParts(locales, o, v) ==
    (IF v.neg THEN <<Part("minusSign", <<"-">>)>> ELSE <<>>)
        \o StylePrefix(o.style, locales)
        \o IntegerParts(padStart(NatToString(v.int),
                                 o.minimumIntegerDigits, "0"),
                        locales, o.useGrouping)
        \o FractionParts(v.frac, locales, o.minimumFractionDigits)
        \o StyleSuffix(o.style, locales)

RECURSIVE JoinParts(_)
JoinParts(parts) ==
    IF parts = <<>> THEN <<>>
    ELSE Head(parts).value \o JoinParts(Tail(parts))

\* new Intl.NumberFormat(locales, o).format(v)
format(locales, o, v) == JoinParts(formatToParts(locales, o, v))

HostCall(method, o, v) == [method |-> method, options |-> o, value |-> v]

\* an outcome together with the calls made to the host's formatter
WithCalls(o, calls) ==
    [ok |-> o.ok, val |-> o.val, err |-> o.err, by |-> o.by,
     calls |-> calls]

\* the options after the defaults: a property that is not given is Absent
OptionOf(given, default) == IF given = Absent THEN default ELSE given[1]

NumberFormatOptions(style, minFD, minID, useGrouping) ==
    [style |-> style, minimumFractionDigits |-> minFD,
     minimumIntegerDigits |-> minID, useGrouping |-> useGrouping]

\* Number.parseFloat of a text "-ddd.ddd": a number keeps no trailing zeros
RECURSIVE StripTrailingZeros(_)
StripTrailingZeros(ds) ==
    IF ds = <<>> THEN ds
    ELSE IF ds[Len(ds)] = "0" THEN StripTrailingZeros(SubSeq(ds, 1, Len(ds) - 1))
    ELSE ds

parseFloat(s) ==
    LET neg == Head(s) = "-"
        body == IF neg THEN Tail(s) ELSE s
        dot == CHOOSE i \in 1 .. Len(body) : body[i] = "."
    IN HostNumber(neg, DigitsToNat(SubSeq(body, 1, dot - 1)),
                  StripTrailingZeros(SubSeq(body, dot + 1, Len(body))))

\* the integer part condensed to at most seven digits
conI(ui) ==
    IF ui % 10000000 < 1000000 /\ ui >= 10000000
    THEN (ui % 10000000) + 1000000
    ELSE ui % 10000000

conF_NoLeadingDigit(uf) == uf % 1000

\* the fraction part condensed to at most three digits
conF(uf) ==
    IF uf % 1000 < 100 /\ uf >= 1000
    THEN (uf % 1000) + 100
    ELSE uf % 1000

conE(exp) == -Max(-3, exp)

\* the text that is parsed into the template's number
templateText(neg, ui, uf, exp) ==
    (IF neg THEN <<"-">> ELSE <<>>)
        \o NatToString(conI(ui)) \o <<".">>
        \o padStart(NatToString(conF(uf)), conE(exp), "0")

templateOptions(style, exp) == NumberFormatOptions(style, conE(exp), 1, FALSE)

nfiOptions(exp) == NumberFormatOptions("decimal", -exp, 1, TRUE)

nffOptions(exp) == NumberFormatOptions("decimal", -exp, -exp, FALSE)

\* the values of the parts whose type is one of types, joined
RECURSIVE bufferOf(_, _)
bufferOf(parts, types) ==
    IF parts = <<>> THEN <<>>
    ELSE (IF Head(parts).type \in types THEN Head(parts).value ELSE <<>>)
             \o bufferOf(Tail(parts), types)

plug_KeepsTemplateDigits(template, bufferi, bufferf) == JoinParts(template)

\* the template with its integer and fraction parts replaced
RECURSIVE plug(_, _, _)
plug(template, bufferi, bufferf) ==
    IF template = <<>> THEN <<>>
    ELSE (IF Head(template).type = "integer" THEN bufferi
          ELSE IF Head(template).type = "fraction" THEN bufferf
          ELSE Head(template).value)
             \o plug(Tail(template), bufferi, bufferf)

template(neg, ui, uf, exp, locales, style) ==
    formatToParts(locales, templateOptions(style, exp),
                  parseFloat(templateText(neg, ui, uf, exp)))

splitCalls(neg, integer, fraction, exp, style) ==
    <<HostCall("formatToParts", templateOptions(style, exp),
               parseFloat(templateText(neg, Abs(integer), Abs(fraction), exp))),
      HostCall("formatToParts", nfiOptions(exp), HostBigInt(integer)),
      HostCall("formatToParts", nffOptions(exp), HostBigInt(fraction))>>

\* stringifyLocale from `const div` on: integer = coef / div and
\* fraction = coef % div are formatted apart and put into the template
stringifySplit(neg, integer, fraction, exp, locales, style) ==
    WithCalls(
        Ok(plug(template(neg, Abs(integer), Abs(fraction), exp, locales, style),
                bufferOf(formatToParts(locales, nfiOptions(exp),
                                       HostBigInt(integer)),
                         {"integer", "group"}),
                bufferOf(formatToParts(locales, nffOptions(exp),
                                       HostBigInt(fraction)),
                         {"integer"}))),
        splitCalls(neg, integer, fraction, exp, style))

easyOptions(style, exp) == NumberFormatOptions(style, -Min(0, exp), 1, TRUE)

\* stringifyLocale's easy case: the value is formatted as one bigint
stringifyEasy(scaled, exp, locales, style) ==
    IF ~scaled.ok THEN WithCalls(scaled, <<>>)
    ELSE WithCalls(Ok(format(locales, easyOptions(style, exp),
                             HostBigInt(scaled.val))),
                   <<HostCall("format", easyOptions(style, exp),
                              HostBigInt(scaled.val))>>)

stringifyLocale_FormatsFirst(coef, exp, locales, options) ==
    IF coef = 0 \/ exp >= 0
    THEN stringifyEasy(scaleCoefSafe(coef, exp, 0), exp, locales,
                       OptionOf(options.style, "decimal"))
    ELSE IF OptionOf(options.notation, "standard") # "standard"
    THEN WithCalls(Throw("RangeError", "stringifyLocale"), <<>>)
    ELSE IF OptionOf(options.style, "decimal") = "percent"
    THEN WithCalls(Throw("RangeError", "stringifyLocale"), <<>>)
    ELSE stringifySplit(coef < 0, BigIntDiv(coef, Pow10(-exp)),
                        BigIntRem(coef, Pow10(-exp)), exp, locales,
                        OptionOf(options.style, "decimal"))

stringifyLocale_AlwaysSplits(coef, exp, locales, options) ==
    IF OptionOf(options.notation, "standard") # "standard"
    THEN WithCalls(Throw("RangeError", "stringifyLocale"), <<>>)
    ELSE IF OptionOf(options.style, "decimal") = "percent"
    THEN WithCalls(Throw("RangeError", "stringifyLocale"), <<>>)
    ELSE IF exp >= 0
    THEN stringifyEasy(scaleCoefSafe(coef, exp, 0), exp, locales,
                       OptionOf(options.style, "decimal"))
    ELSE stringifySplit(coef < 0, BigIntDiv(coef, Pow10(-exp)),
                        BigIntRem(coef, Pow10(-exp)), exp, locales,
                        OptionOf(options.style, "decimal"))

stringifyLocale(coef, exp, locales, options) ==
    IF OptionOf(options.notation, "standard") # "standard"
    THEN WithCalls(Throw("RangeError", "stringifyLocale"), <<>>)
    ELSE IF OptionOf(options.style, "decimal") = "percent"
    THEN WithCalls(Throw("RangeError", "stringifyLocale"), <<>>)
    ELSE IF coef = 0 \/ exp >= 0
    THEN stringifyEasy(scaleCoefSafe(coef, exp, 0), exp, locales,
                       OptionOf(options.style, "decimal"))
    ELSE stringifySplit(coef < 0, BigIntDiv(coef, Pow10(-exp)),
                        BigIntRem(coef, Pow10(-exp)), exp, locales,
                        OptionOf(options.style, "decimal"))

\* x.toLocaleString(locales, options)
toLocaleString(x, locales, options) ==
    stringifyLocale(x.coef, x.exp, locales, options)

----------------------------------------------------------------------------
(* Locale formatting: a program that holds a Decimal (acc) and the locale  *)
(* and options it formats with (arg), and formats it once.                 *)

LocaleCoefs ==
    Coefs(MaxOperand) \cup {5, -15, 120, 1000, 1234, -7890, 5000, -100000,
                            2000001, 10000000, 12345678, -30000000,
                            100000005, 1234567890, -1000000005}

LocaleExps == (-(2 * MaxAccExp)) .. MaxExp

Locales == {"en", "de"}

NoOptions == [notation |-> Absent, style |-> Absent]

Options ==
    [notation : {Absent, Given("standard"), Given("compact"),
                 Given("scientific")},
     style : {Absent, Given("decimal"), Given("currency"), Given("unit"),
              Given("percent")}]

InitLocale ==
    /\ acc \in [coef : LocaleCoefs, exp : LocaleExps]
    /\ arg \in [locales : Locales, options : Options]
    /\ ret = NoCall
    /\ ref = NoCall
    /\ hist = {}
    /\ defaultRounding = "HALF_UP"

\* stringifyLocale(coef, exp, locales)
StringifyLocale ==
    /\ ret = NoCall
    /\ arg.options = NoOptions
    /\ FitsScaled(acc.coef, acc.exp)
    /\ ret' = [op |-> "stringifyLocale", coef |-> acc.coef, exp |-> acc.exp,
               locales |-> arg.locales, options |-> NoOptions,
               out |-> stringifyLocale(acc.coef, acc.exp, arg.locales,
                                       NoOptions)]
    /\ UNCHANGED <<acc, arg, ref, hist, defaultRounding>>

\* stringifyLocale(coef, exp, locales, options)
StringifyLocaleOptions ==
    /\ ret = NoCall
    /\ FitsScaled(acc.coef, acc.exp)
    /\ ret' = [op |-> "stringifyLocale", coef |-> acc.coef, exp |-> acc.exp,
               locales |-> arg.locales, options |-> arg.options,
               out |-> stringifyLocale(acc.coef, acc.exp, arg.locales,
                                       arg.options)]
    /\ UNCHANGED <<acc, arg, ref, hist, defaultRounding>>

\* x.toLocaleString(locales, options)
ToLocaleString ==
    /\ ret = NoCall
    /\ FitsScaled(acc.coef, acc.exp)
    /\ ret' = [op |-> "toLocaleString", coef |-> acc.coef, exp |-> acc.exp,
               locales |-> arg.locales, options |-> arg.options,
               out |-> toLocaleString(acc, arg.locales, arg.options)]
    /\ UNCHANGED <<acc, arg, ref, hist, defaultRounding>>

NextLocale == StringifyLocale \/ StringifyLocaleOptions \/ ToLocaleString

SpecLocale == InitLocale /\ [][NextLocale]_vars

Formatted == ret # NoCall /\ ret.op \in {"stringifyLocale", "toLocaleString"}

Unsupported(options) ==
    \/ options.notation \notin {Absent, Given("standard")}
    \/ options.style = Given("percent")

\* C21: formatting with a notation other than standard, or with the percent
\* style, fails with a RangeError whatever the coefficient and exponent
\* are, and the host's formatter has not been called when it fails.
UnsupportedOptionsRejected ==
    (Formatted /\ Unsupported(ret.options)) =>
        /\ ~ret.out.ok
        /\ ret.out.err = "RangeError"
        /\ ret.out.by = "stringifyLocale"
        /\ ret.out.calls = <<>>

UnsupportedOptionsRejectedWitness ==
    /\ Formatted
    /\ ret.coef = 0
    /\ ret.exp = 1
    /\ ret.options = [notation |-> Absent, style |-> Given("percent")]
    /\ ~ret.out.ok

Split == Formatted /\ ret.out.ok /\ ret.coef # 0 /\ ret.exp < 0

IntegerPart == BigIntDiv(ret.coef, Pow10(-ret.exp))

FractionPart == BigIntRem(ret.coef, Pow10(-ret.exp))

\* C27: for a nonzero coefficient and a negative exponent, the number the
\* template is formatted from has an integer fragment conI with
\* 0 <= conI < 10^7 that is 0 exactly when the integer part I is 0, and a
\* fraction fragment conF with 0 <= conF < 1000 that is 0 exactly when the
\* fraction part F is 0, written with exactly min(3, -exp) digits; the
\* number is not zero and has the sign of the coefficient.
TemplateValueBounded ==
    Split =>
        /\ ret.out.calls[1].value.int = conI(Abs(IntegerPart))
        /\ conI(Abs(IntegerPart)) \in 0 .. 9999999
        /\ (conI(Abs(IntegerPart)) = 0) <=> (IntegerPart = 0)
        /\ conF(Abs(FractionPart)) \in 0 .. 999
        /\ (conF(Abs(FractionPart)) = 0) <=> (FractionPart = 0)
        /\ Len(padStart(NatToString(conF(Abs(FractionPart))),
                        conE(ret.exp), "0")) = Min(3, -ret.exp)
        /\ ValueOfDigits(ret.out.calls[1].value.frac, 0)
               * Pow10(Min(3, -ret.exp) - Len(ret.out.calls[1].value.frac))
               = conF(Abs(FractionPart))
        /\ ret.out.calls[1].value.int # 0
               \/ ret.out.calls[1].value.frac # <<>>
        /\ ret.out.calls[1].value.neg <=> (ret.coef < 0)

TemplateValueBoundedWitness ==
    /\ Split
    /\ ret.coef = -100000
    /\ ret.exp = -6
    /\ ret.out.calls[1].value = HostNumber(TRUE, 0, <<"1">>)

\* the parts the host returned for the template
TemplateParts ==
    formatToParts(ret.locales, ret.out.calls[1].options,
                  ret.out.calls[1].value)

\* the host's grouped rendering of the integer part, without its sign
GroupedInteger ==
    JoinParts(IntegerParts(NatToString(Abs(IntegerPart)), ret.locales, TRUE))

\* the digits of |F|, zero-padded to -exp digits
PaddedFraction == padStart(NatToString(Abs(FractionPart)), -ret.exp, "0")

RECURSIVE Replaced(_)
Replaced(parts) ==
    IF parts = <<>> THEN <<>>
    ELSE (CASE Head(parts).type = "integer" -> GroupedInteger
            [] Head(parts).type = "fraction" -> PaddedFraction
            [] OTHER -> Head(parts).value)
             \o Replaced(Tail(parts))

DigitsOf(s) == SelectSeq(s, IsDigit)

\* C22: for a nonzero coefficient and a negative exponent the output is the
\* template's parts in order, with the integer part replaced by the host's
\* grouped rendering of I = coef div 10^(-exp), the fraction part replaced
\* by the digits of |F| zero-padded to exactly -exp digits, and every other
\* part (sign, decimal separator, currency, unit, literal) verbatim; so the
\* digits of the output are exactly the decimal digits of |coef|, the last
\* -exp of them after the decimal separator, and none is a template digit.
LocaleDigitsExact ==
    Split =>
        /\ Len(ret.out.calls) = 3
        /\ ret.out.val = Replaced(TemplateParts)
        /\ Len(PaddedFraction) = -ret.exp
        /\ DigitsOf(ret.out.val)
               = NatToString(Abs(IntegerPart)) \o PaddedFraction
        /\ ValueOfDigits(DigitsOf(ret.out.val), 0) = Abs(ret.coef)

LocaleDigitsExactWitness ==
    /\ Split
    /\ ret.coef = -1000000005
    /\ ret.exp = -2
    /\ ret.locales = "de"
    /\ ret.options = [notation |-> Absent, style |-> Given("currency")]
    /\ ret.out.calls[1].value = HostNumber(TRUE, 1000000, <<"0", "5">>)
    /\ ret.out.val = <<"-", "1", "0", ".", "0", "0", "0", ".", "0", "0", "0",
                       ",", "0", "5", " ", "E">>

----------------------------------------------------------------------------
(* The default rounding mode: a program that holds x (acc) and y (arg),    *)
(* assigns BigIntAsDecimal.defaultRounding, and calls divide, scaleCoef    *)
(* and setExp with and without a rounding argument.  An argument that is   *)
(* not passed is Absent.                                                   *)

roundingOrDefault_AtDefinition(rounding, default) ==
    OptionOf(rounding, "HALF_UP")

\* rounding: RoundingDivision = BigIntAsDecimal.defaultRounding
roundingOrDefault(rounding, default) == OptionOf(rounding, default)

expOutOrDefault_Zero(expOut, xe) == OptionOf(expOut, 0)

\* expOut: number = xe
expOutOrDefault(expOut, xe) == OptionOf(expOut, xe)

divideCall(x, y, expOut, rounding, default) ==
    divide(x.coef, x.exp, y.coef, y.exp, expOutOrDefault(expOut, x.exp),
           roundingOrDefault(rounding, default))

scaleCoefCall(x, expTo, rounding, default) ==
    scaleCoef(x.coef, x.exp, expTo, roundingOrDefault(rounding, default))

setExpCall(x, expTo, rounding, default) ==
    setExp(x, expTo, roundingOrDefault(rounding, default))

DefaultDividends == [coef : {-15, 0, 5, 15}, exp : Exps(MaxExp)]

DefaultDivisors == [coef : {-4, 0, 2}, exp : Exps(MaxExp)]

InitDefault ==
    /\ acc \in DefaultDividends
    /\ arg \in DefaultDivisors
    /\ ret = NoCall
    /\ ref = NoCall
    /\ hist = {}
    /\ defaultRounding = "HALF_UP"

\* BigIntAsDecimal.defaultRounding = rounding; hist tells it was assigned,
\* and the result of the call before it is dropped
SetDefaultRounding ==
    /\ \E rounding \in RoundingModes : defaultRounding' = rounding
    /\ hist' = {"assigned"}
    /\ ret' = NoCall
    /\ UNCHANGED <<acc, arg, ref>>

\* divide(xc, xe, yc, ye)
DivideNoMode ==
    /\ ret = NoCall
    /\ ret' = [op |-> "divide", x |-> acc, y |-> arg, expOut |-> Absent,
               rounding |-> Absent, default |-> defaultRounding,
               out |-> divideCall(acc, arg, Absent, Absent, defaultRounding)]
    /\ UNCHANGED <<acc, arg, ref, hist, defaultRounding>>

\* divide(xc, xe, yc, ye, undefined, rounding)
DivideMode ==
    /\ ret = NoCall
    /\ \E rounding \in RoundingModes :
        ret' = [op |-> "divide", x |-> acc, y |-> arg, expOut |-> Absent,
                rounding |-> Given(rounding), default |-> defaultRounding,
                out |-> divideCall(acc, arg, Absent, Given(rounding),
                                   defaultRounding)]
    /\ UNCHANGED <<acc, arg, ref, hist, defaultRounding>>

\* scaleCoef(coef, exp, expTo)
ScaleCoefNoMode ==
    /\ ret = NoCall
    /\ \E expTo \in Exps(MaxAccExp) :
        ret' = [op |-> "scaleCoef", x |-> acc, expTo |-> expTo,
                rounding |-> Absent, default |-> defaultRounding,
                out |-> scaleCoefCall(acc, expTo, Absent, defaultRounding)]
    /\ UNCHANGED <<acc, arg, ref, hist, defaultRounding>>

\* scaleCoef(coef, exp, expTo, rounding)
ScaleCoefMode ==
    /\ ret = NoCall
    /\ \E expTo \in Exps(MaxAccExp), rounding \in RoundingModes :
        ret' = [op |-> "scaleCoef", x |-> acc, expTo |-> expTo,
                rounding |-> Given(rounding), default |-> defaultRounding,
                out |-> scaleCoefCall(acc, expTo, Given(rounding),
                                      defaultRounding)]
    /\ UNCHANGED <<acc, arg, ref, hist, defaultRounding>>

\* x.setExp(expTo)
SetExpNoMode ==
    /\ ret = NoCall
    /\ \E expTo \in Exps(MaxAccExp) :
        ret' = [op |-> "setExp", x |-> acc, expTo |-> expTo,
                rounding |-> Absent, default |-> defaultRounding,
                out |-> setExpCall(acc, expTo, Absent, defaultRounding)]
    /\ UNCHANGED <<acc, arg, ref, hist, defaultRounding>>

\* x.setExp(expTo, rounding)
SetExpMode ==
    /\ ret = NoCall
    /\ \E expTo \in Exps(MaxAccExp), rounding \in RoundingModes :
        ret' = [op |-> "setExp", x |-> acc, expTo |-> expTo,
                rounding |-> Given(rounding), default |-> defaultRounding,
                out |-> setExpCall(acc, expTo, Given(rounding),
                                   defaultRounding)]
    /\ UNCHANGED <<acc, arg, ref, hist, defaultRounding>>

NextDefault ==
    \/ SetDefaultRounding
    \/ DivideNoMode
    \/ DivideMode
    \/ ScaleCoefNoMode
    \/ ScaleCoefMode
    \/ SetExpNoMode
    \/ SetExpMode

SpecDefault == InitDefault /\ [][NextDefault]_vars

\* the call of ret, made again with the given rounding argument while the
\* default is the given one
Again(call, rounding, default) ==
    CASE call.op = "divide" ->
             divideCall(call.x, call.y, call.expOut, rounding, default)
      [] call.op = "scaleCoef" ->
             scaleCoefCall(call.x, call.expTo, rounding, default)
      [] call.op = "setExp" ->
             setExpCall(call.x, call.expTo, rounding, default)

\* C23: the default rounding mode is one process-wide state: it is HALF_UP
\* until it is assigned, and after any sequence of assignments and calls a
\* divide, scaleCoef or setExp without a rounding argument returns what the
\* same call returns when the current default is passed explicitly, while a
\* call with a rounding argument returns the same whatever the default is.
DefaultRoundingIsCurrent ==
    /\ hist = {} => defaultRounding = "HALF_UP"
    /\ (ret # NoCall /\ ret.rounding = Absent) =>
           \A other \in RoundingModes :
               ret.out = Again(ret, Given(ret.default), other)
    /\ (ret # NoCall /\ ret.rounding # Absent) =>
           \A other \in RoundingModes :
               ret.out = Again(ret, ret.rounding, other)

DefaultRoundingIsCurrentWitness ==
    /\ hist # {}
    /\ ret # NoCall
    /\ ret.op = "divide"
    /\ ret.rounding = Absent
    /\ ret.default = "DOWN"
    /\ ret.x = Decimal(15, 0)
    /\ ret.y = Decimal(2, 0)
    /\ ret.out.val = Decimal(7, 0)
    /\ Again(ret, Given("HALF_UP"), "DOWN").val = Decimal(8, 0)

\* C28: divide called without expOut is never rejected by the
\* double-rounding guard: for every dividend, every divisor with a nonzero
\* coefficient and an exponent of any sign, and every rounding mode (passed
\* or default), it returns a Decimal whose exponent is the dividend's.
DivideWithoutExpOutSucceeds ==
    (ret # NoCall /\ ret.op = "divide" /\ ret.expOut = Absent
                  /\ ret.y.coef # 0) =>
        /\ ret.out.ok
        /\ ret.out.val.exp = ret.x.exp
        /\ \A i \in 1 .. Len(ret.out.steps) : ret.out.steps[i] # "throw"

DivideWithoutExpOutSucceedsWitness ==
    /\ ret # NoCall
    /\ ret.op = "divide"
    /\ ret.expOut = Absent
    /\ ret.rounding = Given("TOWARD_NEGATIVE_INFINITY")
    /\ ret.x = Decimal(-15, -1)
    /\ ret.y = Decimal(2, 1)
    /\ ret.out.ok
    /\ ret.out.val = Decimal(-1, -1)

----------------------------------------------------------------------------
(* Objects: a program that holds references x (acc) and y (arg) to Decimal *)
(* objects and calls the instance methods of x, some with y as operand.    *)
(* hist is the list of the objects allocated so far, each with its coef    *)
(* and exp fields; a reference is a position in that list.                 *)

MaxObjects == 4

\* new BigIntAsDecimal(coef, exp), when the computation before it succeeded
alloc(heap, out) ==
    IF out.ok
    THEN [heap |-> Append(heap, Decimal(out.val.coef, out.val.exp)),
          out |-> Ok(Len(heap) + 1)]
    ELSE [heap |-> heap, out |-> out]

\* a method that allocates nothing
noalloc(heap, out) == [heap |-> heap, out |-> out]

AsValue(d) == [type |-> "Decimal", coef |-> d.coef, exp |-> d.exp]

\* x.clone()
cloneOn(heap, x) == alloc(heap, Ok(Decimal(heap[x].coef, heap[x].exp)))

\* BigIntAsDecimal.create(x)
createOn(heap, x) == alloc(heap, create(AsValue(heap[x]), Absent))

setExpOn_InPlace(heap, x, expTo, rounding) ==
    IF setExp(heap[x], expTo, rounding).ok
    THEN [heap |-> [heap EXCEPT ![x] = setExp(heap[x], expTo, rounding).val],
          out |-> Ok(x)]
    ELSE [heap |-> heap, out |-> setExp(heap[x], expTo, rounding)]

\* x.setExp(expTo, rounding)
setExpOn(heap, x, expTo, rounding) ==
    alloc(heap, setExp(heap[x], expTo, rounding))

\* the methods with an operand, after `const y = BigIntAsDecimal.create(yc, ye)`
\* has returned r
compareToWith(r, x) ==
    IF ~r.out.ok THEN r
    ELSE noalloc(r.heap, compare(r.heap[x].coef, r.heap[x].exp,
                                 r.heap[r.out.val].coef, r.heap[r.out.val].exp))

addWith(r, x) ==
    IF ~r.out.ok THEN r
    ELSE alloc(r.heap, add(r.heap[x].coef, r.heap[x].exp,
                           r.heap[r.out.val].coef, r.heap[r.out.val].exp))

subtractWith(r, x) ==
    IF ~r.out.ok THEN r
    ELSE alloc(r.heap, subtract(r.heap[x].coef, r.heap[x].exp,
                                r.heap[r.out.val].coef, r.heap[r.out.val].exp))

multiplyWith(r, x) ==
    IF ~r.out.ok THEN r
    ELSE alloc(r.heap, multiply(r.heap[x].coef, r.heap[x].exp,
                                r.heap[r.out.val].coef, r.heap[r.out.val].exp))

divideWith(r, x, expOut, rounding) ==
    IF ~r.out.ok THEN r
    ELSE IF ~checkExp(expOut).ok THEN noalloc(r.heap, checkExp(expOut))
    ELSE alloc(r.heap, divide(r.heap[x].coef, r.heap[x].exp,
                              r.heap[r.out.val].coef, r.heap[r.out.val].exp,
                              expOut, rounding))

\* const y = BigIntAsDecimal.create(yc, ye), called with the fields of y
operandOn(heap, y) ==
    alloc(heap, create([type |-> "bigint", val |-> heap[y].coef],
                       Given(heap[y].exp)))

\* x.compareTo(y.coef, y.exp), x.add(y.coef, y.exp), and so on
compareToOn(heap, x, y) == compareToWith(operandOn(heap, y), x)

addOn(heap, x, y) == addWith(operandOn(heap, y), x)

subtractOn(heap, x, y) == subtractWith(operandOn(heap, y), x)

multiplyOn(heap, x, y) == multiplyWith(operandOn(heap, y), x)

divideOn(heap, x, y, expOut, rounding) ==
    divideWith(operandOn(heap, y), x, expOutOrDefault(expOut, heap[x].exp),
               rounding)

\* x.isInteger(), x.toString(), x.toLocaleString(locales, options)
isIntegerOn(heap, x) == noalloc(heap, Ok(isInteger(heap[x].coef, heap[x].exp)))

toStringOn(heap, x) == noalloc(heap, stringify(heap[x].coef, heap[x].exp))

toLocaleStringOn(heap, x, locales, options) ==
    noalloc(heap, toLocaleString(heap[x], locales, options))

ObjectExps == {-1, 0, 1}

ObjectDecimals == [coef : {-15, 5}, exp : ObjectExps] \cup {Decimal(0, 0)}

InitObjects ==
    /\ hist \in {<<x, y>> : x \in ObjectDecimals, y \in ObjectDecimals}
    /\ acc = 1
    /\ arg = 2
    /\ ret = NoCall
    /\ ref = NoCall
    /\ defaultRounding = "HALF_UP"

\* the call op of x, with operand y or not, has returned r
Called(op, r) ==
    /\ hist' = r.heap
    /\ ret' = [op |-> op, this |-> acc, other |-> arg, out |-> r.out]
    /\ UNCHANGED <<acc, arg, ref, defaultRounding>>

\* the objects whose fields the model can compute with
Operable(o) == Abs(hist[o].coef) <= MaxAccCoef /\ Abs(hist[o].exp) <= MaxExp + 1

\* a call without operand allocates its result at most
HasRoom == Len(hist) + 1 <= MaxObjects /\ Operable(acc)

\* a call with an operand allocates the operand's copy and its result
HasRoomWith == Len(hist) + 2 <= MaxObjects /\ Operable(acc) /\ Operable(arg)

CallClone == HasRoom /\ Called("clone", cloneOn(hist, acc))

CallCreate == HasRoom /\ Called("create", createOn(hist, acc))

CallSetExp ==
    /\ HasRoom
    /\ \E expTo \in ObjectExps :
        Called("setExp", setExpOn(hist, acc, expTo, defaultRounding))

CallCompareTo == HasRoomWith /\ Called("compareTo", compareToOn(hist, acc, arg))

CallAdd == HasRoomWith /\ Called("add", addOn(hist, acc, arg))

CallSubtract == HasRoomWith /\ Called("subtract", subtractOn(hist, acc, arg))

CallMultiply == HasRoomWith /\ Called("multiply", multiplyOn(hist, acc, arg))

CallDivide ==
    /\ HasRoomWith
    /\ \E expOut \in {Absent, Given(0)} :
        Called("divide", divideOn(hist, acc, arg, expOut, defaultRounding))

CallIsInteger == Operable(acc) /\ Called("isInteger", isIntegerOn(hist, acc))

CallToString == Operable(acc) /\ Called("toString", toStringOn(hist, acc))

CallToLocaleString ==
    /\ Operable(acc)
    /\ \E options \in {NoOptions, [notation |-> Absent, style |-> Given("percent")]} :
        Called("toLocaleString", toLocaleStringOn(hist, acc, "en", options))

\* x = r, or y = r, for the Decimal r that the last call returned
AssignResult ==
    /\ ret # NoCall
    /\ ret.op \in {"clone", "create", "setExp", "add", "subtract",
                   "multiply", "divide"}
    /\ ret.out.ok
    /\ \/ acc' = ret.out.val /\ arg' = arg
       \/ arg' = ret.out.val /\ acc' = acc
    /\ UNCHANGED <<ret, ref, hist, defaultRounding>>

NextObjects ==
    \/ CallClone
    \/ CallCreate
    \/ CallSetExp
    \/ CallCompareTo
    \/ CallAdd
    \/ CallSubtract
    \/ CallMultiply
    \/ CallDivide
    \/ CallIsInteger
    \/ CallToString
    \/ CallToLocaleString
    \/ AssignResult

SpecObjects == InitObjects /\ [][NextObjects]_vars

ReturnsDecimal ==
    {"clone", "create", "setExp", "add", "subtract", "multiply", "divide"}

\* C24: no operation mutates a Decimal: whether it succeeds or fails, every
\* call of clone, create, setExp, compareTo, add, subtract, multiply,
\* divide, isInteger, toString and toLocaleString leaves the coef and exp of
\* every existing object, the receiver and the operand among them, as they
\* were, and a call that returns a Decimal returns an object that did not
\* exist before, so one distinct from its operands.
DecimalsImmutable ==
    [][/\ \A o \in DOMAIN hist : o \in DOMAIN hist' /\ hist'[o] = hist[o]
       /\ (ret' # ret /\ ret'.op \in ReturnsDecimal /\ ret'.out.ok) =>
              /\ ret'.out.val \notin DOMAIN hist
              /\ ret'.out.val \in DOMAIN hist'
              /\ ret'.out.val \notin {ret'.this, ret'.other}]_vars

DecimalsImmutableWitness ==
    /\ ret # NoCall
    /\ ret.op = "setExp"
    /\ ret.this = 1
    /\ ret.out = Ok(3)
    /\ hist = <<Decimal(-15, 0), Decimal(5, -1), Decimal(-2, 1)>>

----------------------------------------------------------------------------
(* Refining and coarsening back: a program that holds x (acc), refines it  *)
(* to a smaller exponent (arg) and sets the exponent back to that of x.    *)

InitRoundTrip ==
    /\ acc \in [coef : SetExpCoefs, exp : Exps(MaxExp)]
    /\ arg = NoCall
    /\ ret = NoCall
    /\ ref = NoCall
    /\ hist = {}
    /\ defaultRounding = "HALF_UP"

\* y = x.setExp(t) with t <= x.exp
Refine ==
    /\ arg = NoCall
    /\ ret = NoCall
    /\ \E t \in Exps(MaxAccExp) :
        /\ t <= acc.exp
        /\ arg' = [expTo |-> t, out |-> setExp(acc, t, defaultRounding)]
    /\ UNCHANGED <<acc, ret, ref, hist, defaultRounding>>

\* y.setExp(x.exp, rounding)
CoarsenBack ==
    /\ arg # NoCall
    /\ arg.out.ok
    /\ ret = NoCall
    /\ \E rounding \in RoundingModes :
        ret' = [op |-> "setExp", from |-> acc, x |-> arg.out.val,
                expTo |-> acc.exp, rounding |-> rounding,
                out |-> setExp(arg.out.val, acc.exp, rounding)]
    /\ UNCHANGED <<acc, arg, ref, hist, defaultRounding>>

\* x.setExp(x.exp, rounding)
SetExpSame ==
    /\ arg = NoCall
    /\ ret = NoCall
    /\ \E rounding \in RoundingModes :
        ret' = [op |-> "setExp", from |-> acc, x |-> acc,
                expTo |-> acc.exp, rounding |-> rounding,
                out |-> setExp(acc, acc.exp, rounding)]
    /\ UNCHANGED <<acc, arg, ref, hist, defaultRounding>>

NextRoundTrip == Refine \/ CoarsenBack \/ SetExpSame

SpecRoundTrip == InitRoundTrip /\ [][NextRoundTrip]_vars

\* C30: refining and coarsening back is lossless: for a Decimal (c, e), an
\* exponent t <= e and each rounding mode m, setExp(t) followed by
\* setExp(e, m) returns (c, e), and setExp(e, m) called directly returns
\* (c, e) as well.
RefineCoarsenLossless ==
    /\ arg # NoCall =>
           /\ arg.out.ok
           /\ arg.out.val.exp = arg.expTo
           /\ RatOf(arg.out.val) = RatOf(acc)
    /\ ret # NoCall => ret.out = Ok(Decimal(acc.coef, acc.exp))

RefineCoarsenLosslessWitness ==
    /\ ret # NoCall
    /\ acc = Decimal(-25, 1)
    /\ ret.x = Decimal(-25000, -2)
    /\ ret.rounding = "TOWARD_POSITIVE_INFINITY"
    /\ ret.out = Ok(Decimal(-25, 1))

----------------------------------------------------------------------------
(* Division of equal values: a program that holds x (acc) and y (arg),     *)
(* writes each of them with a smaller exponent too, and divides both ways  *)
(* with the same expOut and rounding.                                      *)

EquivDividends == [coef : {-15, 5, 12}, exp : Exps(MaxExp)]

EquivDivisors == [coef : {-4, 0, 2}, exp : Exps(MaxExp)]

\* the same value with an exponent smaller by k
Refined(d, k) == Decimal(d.coef * Pow10(k), d.exp - k)

InitEquiv ==
    /\ acc \in EquivDividends
    /\ arg \in EquivDivisors
    /\ ret = NoCall
    /\ ref = NoCall
    /\ hist = {}
    /\ defaultRounding = "HALF_UP"

\* divide(x, y, expOut, rounding) and the same with x2 for x and y2 for y
DividedBoth(x2, y2, expOut, rounding) ==
    /\ Representable(acc, arg, expOut)
    /\ Representable(x2, y2, expOut)
    /\ ret' = [op |-> "divide", x |-> acc, y |-> arg, x2 |-> x2, y2 |-> y2,
               expOut |-> expOut, rounding |-> rounding,
               out |-> divide(acc.coef, acc.exp, arg.coef, arg.exp,
                              expOut, rounding),
               out2 |-> divide(x2.coef, x2.exp, y2.coef, y2.exp,
                               expOut, rounding)]
    /\ UNCHANGED <<acc, arg, ref, hist, defaultRounding>>

DivideRefinedDividend ==
    /\ ret = NoCall
    /\ \E k \in 1 .. MaxExp + 1, expOut \in Exps(MaxAccExp),
          rounding \in RoundingModes :
        DividedBoth(Refined(acc, k), arg, expOut, rounding)

DivideRefinedDivisor ==
    /\ ret = NoCall
    /\ \E k \in 1 .. MaxExp + 1, expOut \in Exps(MaxAccExp),
          rounding \in RoundingModes :
        DividedBoth(acc, Refined(arg, k), expOut, rounding)

DivideRefinedBoth ==
    /\ ret = NoCall
    /\ \E k \in 1 .. MaxExp + 1, j \in 1 .. MaxExp + 1,
          expOut \in Exps(MaxAccExp), rounding \in RoundingModes :
        DividedBoth(Refined(acc, k), Refined(arg, j), expOut, rounding)

NextEquiv ==
    DivideRefinedDividend \/ DivideRefinedDivisor \/ DivideRefinedBoth

SpecEquiv == InitEquiv /\ [][NextEquiv]_vars

\* C29: divide does not depend on how its operands are written: when x and
\* x2 are equal in value, y and y2 are equal in value and not zero, and
\* divide succeeds on (x, y) and on (x2, y2) with the same expOut and the
\* same rounding, the two results are identical.
DivideRepresentationIndependent ==
    (ret # NoCall /\ ret.out.ok /\ ret.out2.ok) =>
        /\ RatOf(ret.x) = RatOf(ret.x2)
        /\ RatOf(ret.y) = RatOf(ret.y2)
        /\ ret.y.coef # 0
        /\ ret.out.val = ret.out2.val

DivideRepresentationIndependentWitness ==
    /\ ret # NoCall
    /\ ret.x = Decimal(-15, 0)
    /\ ret.x2 = Decimal(-150, -1)
    /\ ret.y = Decimal(2, 1)
    /\ ret.y2 = Decimal(200, -1)
    /\ ret.expOut = -1
    /\ ret.rounding = "HALF_TO_EVEN"
    /\ ret.out.val = Decimal(-8, -1)
    /\ ret.out2.val = Decimal(-8, -1)

----------------------------------------------------------------------------
(* Exponents at the edge of the safe integers: a program that holds x      *)
(* (acc) and y (arg) whose exponents are safe integers, some of them the   *)
(* largest and the smallest, and derives a Decimal from them.              *)

EdgeExps == {-MaxSafeInteger, -1, 0, 1, MaxSafeInteger}

EdgeDecimals == [coef : {-2, 1, 5}, exp : EdgeExps]

\* the exponents close enough for the model to rescale between them
Near(e1, e2) ==
    IF e1 >= e2 THEN e1 - MaxAccExp <= e2 ELSE e2 - MaxAccExp <= e1

\* the text of x written with an exponent suffix: "1e5", or ".5e-1" with frac
ExpText(frac, exp) ==
    (IF frac THEN <<".", "5">> ELSE <<"1">>) \o <<"e">> \o BigIntToString(exp)

InitEdge ==
    /\ acc \in EdgeDecimals
    /\ arg \in EdgeDecimals
    /\ ret = NoCall
    /\ ref = NoCall
    /\ hist = {}
    /\ defaultRounding = "HALF_UP"

Derived(op, out) ==
    /\ ret' = [op |-> op, x |-> acc, y |-> arg, out |-> out]
    /\ UNCHANGED <<acc, arg, ref, hist, defaultRounding>>

\* create(xc, xe), also with an exponent one past the safe integers
EdgeCreate ==
    /\ ret = NoCall
    /\ \E past \in {0, 1} :
        Derived("create", create([type |-> "bigint", val |-> acc.coef],
                                 Given(acc.exp + past)))

\* parse("1e<exp>") and parse(".5e<exp>")
EdgeParse ==
    /\ ret = NoCall
    /\ \E frac \in BOOLEAN :
        Derived("parse", parse(ExpText(frac, acc.exp), Absent))

\* x.setExp(expTo)
EdgeSetExp ==
    /\ ret = NoCall
    /\ \E expTo \in EdgeExps :
        /\ Near(acc.exp, expTo)
        /\ Derived("setExp", setExp(acc, expTo, defaultRounding))

EdgeAdd ==
    /\ ret = NoCall
    /\ Near(acc.exp, arg.exp)
    /\ Derived("add", add(acc.coef, acc.exp, arg.coef, arg.exp))

EdgeSubtract ==
    /\ ret = NoCall
    /\ Near(acc.exp, arg.exp)
    /\ Derived("subtract", subtract(acc.coef, acc.exp, arg.coef, arg.exp))

EdgeMultiply ==
    /\ ret = NoCall
    /\ Derived("multiply", multiply(acc.coef, acc.exp, arg.coef, arg.exp))

EdgeDivide ==
    /\ ret = NoCall
    /\ Near(arg.exp, 0)
    /\ Derived("divide", divide(acc.coef, acc.exp, arg.coef, arg.exp,
                                acc.exp, defaultRounding))

NextEdge ==
    \/ EdgeCreate
    \/ EdgeParse
    \/ EdgeSetExp
    \/ EdgeAdd
    \/ EdgeSubtract
    \/ EdgeMultiply
    \/ EdgeDivide

SpecEdge == InitEdge /\ [][NextEdge]_vars

\* C25: every Decimal that create, parse, setExp, add, subtract, multiply
\* or divide produces from operands whose exponents are safe integers has a
\* safe-integer exponent: the sum of two exponents in multiply, and the
\* suffix exponent minus the number of fraction digits in parse, never
\* leave the safe range.
ExponentsStaySafe ==
    (ret # NoCall /\ ret.out.ok /\ ret.out.val # null) =>
        isSafeInteger(ret.out.val.exp)

====
